---- MODULE Spec2Model ----
(***************************************************************************)
(* A model of pdf-handouts: merge_pdfs (src/pdf/merge.rs), count_pages     *)
(* (src/pdf/metadata.rs) and add_headers_footers (src/pdf/headers.rs),     *)
(* over lopdf object graphs.                                               *)
(*                                                                         *)
(* An object identifier is a pair <<number, generation>>.  An object value *)
(* is a tagged record; a dictionary is a function from key strings to      *)
(* object values; a content stream is a sequence of operator tokens.       *)
(***************************************************************************)
EXTENDS Integers, Sequences, FiniteSets, TLC

VARIABLES
    fs,            \* the file system: path -> file
    fs0,           \* history: the file system when merge_pdfs was called
    input_paths,   \* MergeOptions.input_paths
    output_path,   \* MergeOptions.output_path
    pc,            \* position inside merge_pdfs
    idx,           \* index of the loop that is running
    documents,     \* merge_pdfs: Vec<Document> of loaded inputs
    max_id,        \* merge_pdfs: running max_id
    page_ids,      \* merge_pdfs: collected page ids
    objects,       \* merge_pdfs: collected objects
    merged_doc,    \* merge_pdfs: the document being built
    pages_id,      \* merge_pdfs: id of the new Pages root
    catalog_id,    \* merge_pdfs: id of the new Catalog
    result,        \* what merge_pdfs returned
    parsed,        \* history: the paths Document::load has been called on
    ranges,        \* history: per absorbed source, the set of ids it took
    read_back,     \* what count_pages returned for the output file
    sfile,         \* add_headers_footers: the document in the file it reads
    sdoc,          \* add_headers_footers: doc, the document being stamped
    orig,          \* history: doc as this pass loaded and decompressed it
    orig0,         \* history: the document before the first pass
    spc,           \* position inside add_headers_footers
    spage,         \* index into pages of the page being stamped
    pages,         \* add_headers_footers: Vec of the page ids
    page_count,    \* add_headers_footers: page_count
    font_id,       \* add_headers_footers: font_id
    xobject_id,    \* add_headers_footers: xobject_id of the current page
    xobject_of,    \* history: per page index, the overlay this pass made for it
    options,       \* HeaderFooterOptions
    passes,        \* number of completed passes
    call,          \* a function of the text layer and the arguments it is called with
    ret,           \* what the call returned
    fpc,           \* whether the call has been made
    source_doc,    \* overlay_watermark: source_doc
    watermark_doc, \* overlay_watermark: watermark_doc
    source0,       \* history: source_doc as loaded
    id_map,        \* overlay_watermark: id_map
    opc,           \* position inside overlay_watermark
    oidx,          \* overlay_watermark: i + 1 of the page loop
    oresult,       \* what overlay_watermark returned
    ofile,         \* the file at output_path of overlay_watermark
    argv,          \* the inputs of the merge command, as given on the command line
    hargs,         \* the arguments of the headers command, and the day it is run on
    cmd_result,    \* what the headers command returned
    temp_merged,   \* the file at temp_dir/pdf-handouts-merged-temp.pdf
    builds         \* the running build commands: arguments, position, outcome

mvars == <<fs, fs0, input_paths, output_path, pc, idx, documents, max_id,
           page_ids, objects, merged_doc, pages_id, catalog_id, result,
           parsed, ranges, read_back>>

svars == <<sfile, sdoc, orig, orig0, spc, spage, pages, page_count, font_id,
           xobject_id, xobject_of, options, passes>>

fvars == <<call, ret, fpc>>

ovars == <<source_doc, watermark_doc, source0, id_map, opc, oidx, oresult, ofile>>

cvars == <<argv, hargs, cmd_result, temp_merged, builds>>

vars == <<mvars, svars, fvars, ovars, cvars>>

----------------------------------------------------------------------------
(* Bounds of the model *)

MaxInputs == 2
MaxPasses == 2
MaxContentLen == 3

----------------------------------------------------------------------------
(* lopdf::Object *)

Ref(id) == [t |-> "ref", id |-> id]
Integer(n) == [t |-> "int", v |-> n]
Name(s) == [t |-> "name", v |-> s]
Arr(s) == [t |-> "arr", v |-> s]
Dict(d) == [t |-> "dict", v |-> d]
Stream(d, c) == [t |-> "stream", dict |-> d, content |-> c, filter |-> "none"]

EmptyDict == [k \in {} |-> Integer(0)]
NoObjects == [k \in {} |-> Integer(0)]

\* Dictionary::set
DictSet(d, k, v) == (k :> v) @@ d

\* Dictionary::get(...).ok()
Has(d, k) == k \in DOMAIN d

IsDict(o) == o.t = "dict"
IsRef(o) == o.t = "ref"
IsArr(o) == o.t = "arr"
IsStream(o) == o.t = "stream"

\* ObjectId ordering (number, then generation), the order of BTreeMap keys
IdLess(a, b) == a[1] < b[1] \/ (a[1] = b[1] /\ a[2] < b[2])

MaxNumber(ids) == IF ids = {} THEN 0 ELSE CHOOSE n \in {i[1] : i \in ids} : \A i \in ids : i[1] <= n

RECURSIVE Concat(_)
Concat(ss) == IF ss = << >> THEN << >> ELSE Head(ss) \o Concat(Tail(ss))

RECURSIVE SumSeq(_)
SumSeq(s) == IF s = << >> THEN 0 ELSE Head(s) + SumSeq(Tail(s))

----------------------------------------------------------------------------
(* lopdf::Document as the repository uses it *)

NewDocument == [objects |-> NoObjects, max_id |-> 0, trailer |-> EmptyDict]

\* Document::get_pages: the leaf pages under the catalog's page tree, in tree
\* order (depth-first through intermediate Pages nodes)
RECURSIVE PagesUnder(_, _, _)
PagesUnder(objs, id, fuel) ==
    IF fuel = 0 \/ id \notin DOMAIN objs THEN << >>
    ELSE LET o == objs[id] IN
         IF ~IsDict(o) \/ ~Has(o.v, "Type") THEN << >>
         ELSE IF o.v["Type"] = Name("Page") THEN <<id>>
         ELSE IF o.v["Type"] = Name("Pages") /\ Has(o.v, "Kids") /\ IsArr(o.v["Kids"])
              THEN LET kids == o.v["Kids"].v IN
                   Concat([j \in 1..Len(kids) |->
                             IF IsRef(kids[j]) THEN PagesUnder(objs, kids[j].id, fuel - 1)
                             ELSE << >>])
         ELSE << >>

TreeDepth == 4

get_pages(doc) ==
    IF ~Has(doc.trailer, "Root") \/ ~IsRef(doc.trailer["Root"]) THEN << >>
    ELSE LET cid == doc.trailer["Root"].id IN
         IF cid \notin DOMAIN doc.objects \/ ~IsDict(doc.objects[cid]) THEN << >>
         ELSE LET cat == doc.objects[cid].v IN
              IF ~Has(cat, "Pages") \/ ~IsRef(cat["Pages"]) THEN << >>
              ELSE PagesUnder(doc.objects, cat["Pages"].id, TreeDepth)

\* The rewriting step of Document::renumber_objects_with: every Reference, also
\* inside arrays, dictionaries and stream dictionaries, follows the id map
RECURSIVE Renumbered(_, _)
Renumbered(o, map) ==
    CASE o.t = "ref" -> IF o.id \in DOMAIN map THEN Ref(map[o.id]) ELSE o
      [] o.t = "arr" -> Arr([j \in 1..Len(o.v) |-> Renumbered(o.v[j], map)])
      [] o.t = "dict" -> Dict([k \in DOMAIN o.v |-> Renumbered(o.v[k], map)])
      [] o.t = "stream" ->
            [o EXCEPT !.dict = [k \in DOMAIN o.dict |-> Renumbered(o.dict[k], map)]]
      [] OTHER -> o

\* Document::renumber_objects_with(starting_id): the objects, taken in id
\* order, get the numbers starting_id, starting_id + 1, ... (generation
\* kept); max_id becomes the last number given
RenumberMap(doc, starting_id) ==
    [id \in DOMAIN doc.objects |->
        <<starting_id + Cardinality({j \in DOMAIN doc.objects : IdLess(j, id)}), id[2]>>]

renumber_objects_with(doc, starting_id) ==
    LET map == RenumberMap(doc, starting_id)
        new == {map[id] : id \in DOMAIN doc.objects}
        old(n) == CHOOSE id \in DOMAIN doc.objects : map[id] = n
    IN [objects |-> [n \in new |-> Renumbered(doc.objects[old(n)], map)],
        max_id |-> starting_id + Cardinality(DOMAIN doc.objects) - 1,
        trailer |-> [k \in DOMAIN doc.trailer |-> Renumbered(doc.trailer[k], map)]]

\* Document::new_object_id: advance max_id and return (max_id, 0)
new_object_id(doc) == <<doc.max_id + 1, 0>>

\* Document::add_object: the object gets the id (max_id + 1, 0)
add_object(doc, o) ==
    [doc EXCEPT !.max_id = doc.max_id + 1,
                !.objects = (<<doc.max_id + 1, 0>> :> o) @@ doc.objects]

\* Document::decompress: every stream is stored decoded
Decompressed(o) == IF IsStream(o) THEN [o EXCEPT !.filter = "none"] ELSE o

decompress(doc) == [doc EXCEPT !.objects = [id \in DOMAIN doc.objects |-> Decompressed(doc.objects[id])]]

\* Document::compress: every stream without a filter is deflated; what the
\* stream decodes to is unchanged
Compressed(o) == IF IsStream(o) /\ o.filter = "none" THEN [o EXCEPT !.filter = "FlateDecode"] ELSE o

compress(doc) == [doc EXCEPT !.objects = [id \in DOMAIN doc.objects |-> Compressed(doc.objects[id])]]

----------------------------------------------------------------------------
(* The files the commands run on *)

Absent == [k |-> "absent"]
Garbage == [k |-> "garbage"]
Pdf(doc) == [k |-> "pdf", doc |-> doc]

PageStream == Stream(EmptyDict, <<"q", "cm", "op", "Q">>)

\* one page, direct Resources, a single content stream
DocA ==
    [objects |->
        (<<1, 0>> :> Dict([Type |-> Name("Catalog"), Pages |-> Ref(<<2, 0>>)])) @@
        (<<2, 0>> :> Dict([Type |-> Name("Pages"), Kids |-> Arr(<<Ref(<<3, 0>>)>>),
                           Count |-> Integer(1)])) @@
        (<<3, 0>> :> Dict([Type |-> Name("Page"), Parent |-> Ref(<<2, 0>>),
                           Contents |-> Ref(<<4, 0>>),
                           Resources |-> Dict([Font |-> Dict([F1 |-> Ref(<<5, 0>>)])])])) @@
        (<<4, 0>> :> PageStream) @@
        (<<5, 0>> :> Dict([Type |-> Name("Font")])),
     max_id |-> 5,
     trailer |-> [Root |-> Ref(<<1, 0>>)]]

\* two pages under a nested page tree; the first page in page order has the
\* higher id; ids have gaps and one generation is not 0; Resources and
\* MediaBox are inherited from the Pages nodes
DocB ==
    [objects |->
        (<<2, 0>> :> Dict([Type |-> Name("Catalog"), Pages |-> Ref(<<7, 0>>)])) @@
        (<<3, 0>> :> Dict([Type |-> Name("Page"), Parent |-> Ref(<<7, 0>>),
                           Contents |-> Ref(<<5, 1>>)])) @@
        (<<5, 1>> :> PageStream) @@
        (<<7, 0>> :> Dict([Type |-> Name("Pages"),
                           Kids |-> Arr(<<Ref(<<9, 0>>), Ref(<<3, 0>>)>>),
                           Count |-> Integer(2),
                           Resources |-> Dict([Font |-> Dict([F1 |-> Ref(<<11, 0>>)])]),
                           MediaBox |-> Name("Letter")])) @@
        (<<8, 0>> :> Dict([Type |-> Name("Page"), Parent |-> Ref(<<9, 0>>),
                           Contents |-> Arr(<<Ref(<<10, 0>>)>>)])) @@
        (<<9, 0>> :> Dict([Type |-> Name("Pages"), Parent |-> Ref(<<7, 0>>),
                           Kids |-> Arr(<<Ref(<<8, 0>>)>>), Count |-> Integer(1),
                           MediaBox |-> Name("A4")])) @@
        (<<10, 0>> :> PageStream) @@
        (<<11, 0>> :> Dict([Type |-> Name("Font")])),
     max_id |-> 11,
     trailer |-> [Root |-> Ref(<<2, 0>>)]]

\* a document that parses and has no pages
DocZ ==
    [objects |->
        (<<1, 0>> :> Dict([Type |-> Name("Catalog"), Pages |-> Ref(<<2, 0>>)])) @@
        (<<2, 0>> :> Dict([Type |-> Name("Pages"), Kids |-> Arr(<< >>), Count |-> Integer(0)])),
     max_id |-> 2,
     trailer |-> [Root |-> Ref(<<1, 0>>)]]

InputPaths == {"a.pdf", "b.pdf", "zero.pdf", "bad.pdf", "nonexistent.pdf"}
OutputPaths == {"out.pdf", "a.pdf"}
AllPaths == InputPaths \cup OutputPaths

InitialFiles(out) ==
    [p \in AllPaths |->
        CASE p = "a.pdf" -> Pdf(DocA)
          [] p = "b.pdf" -> Pdf(DocB)
          [] p = "zero.pdf" -> Pdf(DocZ)
          [] p = "bad.pdf" -> Garbage
          [] p = "nonexistent.pdf" -> Absent
          [] OTHER -> out]

\* an existence check that is never made
exists_Unchecked(files, p) == TRUE

\* Path::exists
exists(files, p) == files[p].k # "absent"

\* Document::load
LoadOk(files, p) == files[p].k = "pdf"

----------------------------------------------------------------------------
(* crate::error::Error and its Display *)

Ok == [k |-> "Ok"]
ErrGeneral(msg) == [k |-> "Err", kind |-> "General", msg |-> msg]
ErrFileNotFound(p) == [k |-> "Err", kind |-> "FileNotFound", path |-> p]
ErrEmptyPdf(p) == [k |-> "Err", kind |-> "EmptyPdf", path |-> p]
ErrPdf == [k |-> "Err", kind |-> "Pdf"]
NoResult == [k |-> "none"]

NoInputFilesMsg == <<"No", "input", "files", "provided">>

\* the words of e.to_string()
Display(e) ==
    CASE e.kind = "General" -> e.msg
      [] e.kind = "FileNotFound" -> <<"File", "not", "found:", e.path>>
      [] e.kind = "EmptyPdf" -> <<"PDF", "has", "no", "pages:", e.path>>
      [] e.kind = "Pdf" -> <<"PDF", "error:", "parse">>

\* str::contains, on words
Contains(s, w) == \E k \in 0..(Len(s) - Len(w)) : \A j \in 1..Len(w) : s[k + j] = w[j]

----------------------------------------------------------------------------
(* Text: a string is a sequence of one-character strings; an Option is a
   sequence of length 0 (None) or 1 (Some) *)

None == << >>
Some(v) == <<v>>

Digits == <<"0", "1", "2", "3", "4", "5", "6", "7", "8", "9">>

\* usize::to_string
RECURSIVE to_string(_)
to_string(n) ==
    IF n < 10 THEN <<Digits[n + 1]>> ELSE to_string(n \div 10) \o <<Digits[(n % 10) + 1]>>

\* str::starts_with
StartsWith(s, pat) == Len(s) >= Len(pat) /\ SubSeq(s, 1, Len(pat)) = pat

\* str::contains
ContainsStr(s, pat) ==
    \E k \in 0..(Len(s) - Len(pat)) : SubSeq(s, k + 1, k + Len(pat)) = pat

\* str::replace: the non-overlapping matches of from, found left to right,
\* are replaced by to
RECURSIVE replace(_, _, _)
replace(s, from, to) ==
    IF Len(s) < Len(from) THEN s
    ELSE IF StartsWith(s, from)
         THEN to \o replace(SubSeq(s, Len(from) + 1, Len(s)), from, to)
         ELSE <<Head(s)>> \o replace(Tail(s), from, to)

\* str::split: the pieces between the non-overlapping matches of pat; cur is
\* the piece being collected
RECURSIVE SplitFrom(_, _, _)
SplitFrom(s, pat, cur) ==
    IF Len(s) < Len(pat) THEN <<cur \o s>>
    ELSE IF StartsWith(s, pat)
         THEN <<cur>> \o SplitFrom(SubSeq(s, Len(pat) + 1, Len(s)), pat, << >>)
         ELSE SplitFrom(Tail(s), pat, Append(cur, Head(s)))

split(s, pat) == SplitFrom(s, pat, << >>)

\* Iterator::flat_map(|part| part.split(pat))
flat_map_split(parts, pat) == Concat([j \in 1..Len(parts) |-> split(parts[j], pat)])

\* chrono month names, %B
MonthName ==
    <<
<<"J", "a", "n", "u", "a", "r", "y">>,
      <<"F", "e", "b", "r", "u", "a", "r", "y">>,
      <<"M", "a", "r", "c", "h">>,
      <<"A", "p", "r", "i", "l">>,
      <<"M", "a", "y">>,
      <<"J", "u", "n", "e">>,
      <<"J", "u", "l", "y">>,
      <<"A", "u", "g", "u", "s", "t">>,
      <<"S", "e", "p", "t", "e", "m", "b", "e", "r">>,
      <<"O", "c", "t", "o", "b", "e", "r">>,
      <<"N", "o", "v", "e", "m", "b", "e", "r">>,
      <<"D", "e", "c", "e", "m", "b", "e", "r">>>>

\* format_date: "%B %-d, %Y"
format_date(d) ==
    MonthName[d.month] \o <<" ">> \o to_string(d.day) \o <<",", " ">> \o to_string(d.year)

\* expand_placeholders
expand_placeholders(text, page_num, total_pages, date) ==
    LET r1 == replace(text, <<"[", "p", "a", "g", "e", "]">>, to_string(page_num))
        r2 == replace(r1, <<"[", "P", "A", "G", "E", "]">>, to_string(page_num))
        r3 == replace(r2, <<"[", "p", "a", "g", "e", "s", "]">>, to_string(total_pages))
        r4 == replace(r3, <<"[", "P", "A", "G", "E", "S", "]">>, to_string(total_pages))
        formatted == IF date # None THEN format_date(date[1]) ELSE << >>
        r5 == replace(r4, <<"[", "d", "a", "t", "e", "]">>, formatted)
    IN replace(r5, <<"[", "D", "A", "T", "E", "]">>, formatted)

\* parse_multiline_text
parse_multiline_text(text) ==
    LET p0 == split(text, <<"\n">>)
        p1 == flat_map_split(p0, <<"|">>)
        p2 == flat_map_split(p1, <<"[", "b", "r", "]">>)
        p3 == flat_map_split(p2, <<"[", "B", "R", "]">>)
        p4 == flat_map_split(p3, <<"<", "b", "r", ">">>)
        p5 == flat_map_split(p4, <<"<", "B", "R", ">">>)
        p6 == flat_map_split(p5, <<"<", "b", "r", "/", ">">>)
        p7 == flat_map_split(p6, <<"<", "B", "R", "/", ">">>)
        p8 == flat_map_split(p7, <<"<", "b", "r", " ", "/", ">">>)
        p9 == flat_map_split(p8, <<"<", "B", "R", " ", "/", ">">>)
    IN p9

----------------------------------------------------------------------------
(* f32: a value is m * 2^e with m = 0, or 2^23 <= |m| < 2^24; every operation
   rounds to the nearest such value, ties to the even m (IEEE 754 binary32
   without subnormals, infinities and NaN, which the layout never reaches) *)

F32Zero == [m |-> 0, e |-> 0]

Abs(n) == IF n < 0 THEN -n ELSE n

\* the number of binary digits of n > 0
BitLen(n) == CHOOSE k \in 1..31 : 2^(k - 1) <= n /\ (k = 31 \/ n < 2^k)

\* the nearest f32 to (mag + delta) * 2^E, where 0 < delta < 1 if sticky and
\* delta = 0 otherwise; mag > 0
RoundMagnitude(mag, E, sticky) ==
    LET len == BitLen(mag) IN
    IF len <= 24 THEN [m |-> mag * 2^(24 - len), e |-> E - (24 - len)]
    ELSE LET k == len - 24
             q == mag \div 2^k
             r == mag % 2^k
             half == 2^(k - 1)
             up == r > half \/ (r = half /\ (sticky \/ q % 2 = 1))
             q1 == IF up THEN q + 1 ELSE q
         IN IF q1 = 2^24 THEN [m |-> 2^23, e |-> E + k + 1] ELSE [m |-> q1, e |-> E + k]

\* the nearest f32 to (M + delta) * 2^E, M of either sign
F32Round(M, E, sticky) ==
    IF M = 0 /\ ~sticky THEN F32Zero
    ELSE IF M >= 0 THEN RoundMagnitude(M, E, sticky)
    ELSE LET r == RoundMagnitude(IF sticky THEN -M - 1 ELSE -M, E, sticky)
         IN [m |-> -r.m, e |-> r.e]

\* usize as f32, and the integral literals
F32FromInt(n) == F32Round(n, 0, FALSE)

F32Neg(a) == [m |-> -a.m, e |-> a.e]

\* a + b
F32Add(a, b) ==
    IF a.m = 0 THEN b
    ELSE IF b.m = 0 THEN a
    ELSE LET hi == IF a.e >= b.e THEN a ELSE b
             lo == IF a.e >= b.e THEN b ELSE a
             d == hi.e - lo.e
         IN IF d <= 6 THEN F32Round(hi.m * 2^d + lo.m, lo.e, FALSE)
            ELSE IF d > 30 THEN hi
            ELSE LET sh == d - 6
                     q == (lo.m - (lo.m % 2^sh)) \div 2^sh
                 IN F32Round(hi.m * 64 + q, hi.e - 6, lo.m % 2^sh # 0)

\* a - b
F32Sub(a, b) == F32Add(a, F32Neg(b))

\* a * b: the 48-bit product of the two 24-bit magnitudes, in 12-bit digits
F32Mul(a, b) ==
    IF a.m = 0 \/ b.m = 0 THEN F32Zero
    ELSE LET ma == Abs(a.m)
             mb == Abs(b.m)
             ah == ma \div 4096
             al == ma % 4096
             bh == mb \div 4096
             bl == mb % 4096
             p0 == al * bl
             p1 == ah * bl + al * bh + (p0 \div 4096)
             d1 == p1 % 4096
             H == ah * bh + (p1 \div 4096)
             r == RoundMagnitude(H * 64 + (d1 \div 64), a.e + b.e + 18,
                                 d1 % 64 # 0 \/ p0 % 4096 # 0)
         IN IF (a.m < 0) # (b.m < 0) THEN F32Neg(r) ELSE r

\* a / 2.0
F32Half(a) == IF a.m = 0 THEN a ELSE [m |-> a.m, e |-> a.e - 1]

\* the literals of the layout code
F32_1_2 == [m |-> 10066330, e |-> -23]
F32_0_48 == [m |-> 16106127, e |-> -25]
F32_0_21 == [m |-> 14092861, e |-> -26]
F32_0_03 == [m |-> 16106127, e |-> -29]
F32_30 == F32FromInt(30)
F32_50 == F32FromInt(50)
page_width == F32FromInt(612)
page_height == F32FromInt(792)

----------------------------------------------------------------------------
(* HeaderFooterOptions and the composition of the overlay's content; the
   content is a sequence of operators with their operands *)

FontSpecDefault == [bold |-> FALSE, italic |-> FALSE, size |-> None, family |-> None, color |-> None]

\* impl Default for HeaderFooterOptions
DefaultOptions ==
    [title |-> None, footer_left |-> None, footer_center |-> None, footer_right |-> None,
     date |-> None, show_page_numbers |-> TRUE, show_total_page_count |-> FALSE,
     title_font_size |-> F32FromInt(24), footer_font_size |-> F32FromInt(14),
     header_font |-> None, footer_font |-> None]

effective_header_font_size(opts) ==
    IF opts.header_font # None /\ opts.header_font[1].size # None
    THEN opts.header_font[1].size[1] ELSE opts.title_font_size

effective_footer_font_size(opts) ==
    IF opts.footer_font # None /\ opts.footer_font[1].size # None
    THEN opts.footer_font[1].size[1] ELSE opts.footer_font_size

Black == [fmt |-> "0 0 0", rgb |-> <<0, 0, 0>>]

\* header_color_pdf: the colour printed with three decimals, or "0 0 0"
header_color_pdf(opts) ==
    IF opts.header_font # None /\ opts.header_font[1].color # None
    THEN [fmt |-> "{:.3} {:.3} {:.3}", rgb |-> opts.header_font[1].color[1]] ELSE Black

footer_color_pdf(opts) ==
    IF opts.footer_font # None /\ opts.footer_font[1].color # None
    THEN [fmt |-> "{:.3} {:.3} {:.3}", rgb |-> opts.footer_font[1].color[1]] ELSE Black

Upper == <<"A", "B", "C", "D", "E", "F", "G", "H", "I", "J", "K", "L", "M", "N", "O", "P", "Q", "R", "S", "T", "U", "V", "W", "X", "Y", "Z">>
Lower == <<"a", "b", "c", "d", "e", "f", "g", "h", "i", "j", "k", "l", "m", "n", "o", "p", "q", "r", "s", "t", "u", "v", "w", "x", "y", "z">>

\* str::to_lowercase, on ASCII
to_lowercase(s) ==
    [j \in 1..Len(s) |->
        IF \E k \in 1..26 : Upper[k] = s[j]
        THEN Lower[CHOOSE k \in 1..26 : Upper[k] = s[j]] ELSE s[j]]

\* str::find: the byte offset of the first match, -1 for None
find(s, pat) ==
    IF ContainsStr(s, pat)
    THEN CHOOSE k \in 0..(Len(s) - Len(pat)) :
            /\ SubSeq(s, k + 1, k + Len(pat)) = pat
            /\ \A h \in 0..(k - 1) : SubSeq(s, h + 1, h + Len(pat)) # pat
    ELSE -1

\* &s[from..]
SliceFrom(s, from) == SubSeq(s, from + 1, Len(s))

\* &s[from..to]
Slice(s, from, to) == SubSeq(s, from + 1, to)

FontStyleDefault == [italic |-> FALSE, bold |-> FALSE]

\* parse_font_style
parse_font_style(tag_content) ==
    LET lower == to_lowercase(tag_content)
    IN [italic |-> ContainsStr(lower, <<"i", "t", "a", "l", "i", "c">>), bold |-> ContainsStr(lower, <<"b", "o", "l", "d">>)]

TextSegment(text, style) == [text |-> text, style |-> style]

\* parse_font_tags: the loop over remaining
RECURSIVE parse_font_tags(_)
parse_font_tags(remaining) ==
    IF remaining = << >> THEN << >>
    ELSE LET font_start == find(remaining, <<"[", "f", "o", "n", "t", " ">>) IN
         IF font_start = -1 THEN <<TextSegment(remaining, FontStyleDefault)>>
         ELSE LET before == IF font_start > 0
                            THEN <<TextSegment(Slice(remaining, 0, font_start), FontStyleDefault)>>
                            ELSE << >>
                  tag_end_rel == find(SliceFrom(remaining, font_start), <<"]">>)
              IN IF tag_end_rel = -1
                 THEN before \o <<TextSegment(remaining, FontStyleDefault)>>
                 ELSE LET tag_end == font_start + tag_end_rel
                          style == parse_font_style(Slice(remaining, font_start + 6, tag_end))
                          after_tag == SliceFrom(remaining, tag_end + 1)
                          close_pos == find(after_tag, <<"[", "/", "f", "o", "n", "t", "]">>)
                      IN IF close_pos = -1
                         THEN before \o <<TextSegment(after_tag, style)>>
                         ELSE before \o <<TextSegment(Slice(after_tag, 0, close_pos), style)>>
                                     \o parse_font_tags(SliceFrom(after_tag, close_pos + 7))

\* escape_pdf_string
escape_pdf_string(s) ==
    LET r1 == replace(s, <<"\\">>, <<"\\", "\\">>)
        r2 == replace(r1, <<"(">>, <<"\\", "(">>)
        r3 == replace(r2, <<")">>, <<"\\", ")">>)
        r4 == replace(r3, <<"\r">>, <<"\\", "r">>)
    IN replace(r4, <<"\n">>, <<"\\", "n">>)

\* estimate_text_width: text.len() as f32 * font_size * 0.48
estimate_text_width(text, font_size) ==
    F32Mul(F32Mul(F32FromInt(Len(text)), font_size), F32_0_48)

\* the operators of the content
OpColor(op, color) == [op |-> op, color |-> color]
OpBT == [op |-> "BT"]
OpET == [op |-> "ET"]
OpTr(mode) == [op |-> "Tr", mode |-> mode]
OpTf(size) == [op |-> "Tf", font |-> "F1", size |-> size]
OpTm(shear, x, y) == [op |-> "Tm", shear |-> shear, x |-> x, y |-> y]
OpW(width) == [op |-> "w", width |-> width]
OpTj(text) == [op |-> "Tj", text |-> text]

\* the body of the loop of generate_line_with_font_tags, for a segment that
\* is not empty
SegmentOps(segment, current_x, y, font_size) ==
    <<OpBT, OpTf(font_size)>>
    \o (IF segment.style.italic /\ segment.style.bold
        THEN <<OpTm(F32_0_21, current_x, y), OpTr(2), OpW(F32Mul(font_size, F32_0_03))>>
        ELSE IF segment.style.italic
        THEN <<OpTm(F32_0_21, current_x, y), OpTr(0)>>
        ELSE IF segment.style.bold
        THEN <<OpTm(F32Zero, current_x, y), OpTr(2), OpW(F32Mul(font_size, F32_0_03))>>
        ELSE <<OpTm(F32Zero, current_x, y), OpTr(0)>>)
    \o <<OpTj(escape_pdf_string(segment.text)), OpET>>

RECURSIVE SegmentsOps(_, _, _, _)
SegmentsOps(segments, current_x, y, font_size) ==
    IF segments = << >> THEN << >>
    ELSE IF Head(segments).text = << >>
         THEN SegmentsOps(Tail(segments), current_x, y, font_size)
         ELSE SegmentOps(Head(segments), current_x, y, font_size)
              \o SegmentsOps(Tail(segments),
                             F32Add(current_x, estimate_text_width(Head(segments).text, font_size)),
                             y, font_size)

generate_line_with_font_tags(line, x, y, font_size) ==
    SegmentsOps(parse_font_tags(line), x, y, font_size)

\* Iterator::sum over f32
RECURSIVE F32Sum(_)
F32Sum(s) == IF s = << >> THEN F32Zero ELSE F32Add(F32Sum(SubSeq(s, 1, Len(s) - 1)), s[Len(s)])

estimate_text_width_with_tags(text, font_size) ==
    LET segments == parse_font_tags(text)
    IN F32Sum([j \in 1..Len(segments) |-> estimate_text_width(segments[j].text, font_size)])

\* the title block of generate_header_footer_content
TitleOps(title, page_num, total_pages, opts) ==
    LET header_font_size == effective_header_font_size(opts)
        expanded_title == expand_placeholders(title, page_num, total_pages, opts.date)
        title_y == F32Sub(page_height, F32_50)
        title_width == estimate_text_width(expanded_title, header_font_size)
        title_x == F32Half(F32Sub(page_width, title_width))
        header_color == header_color_pdf(opts)
    IN <<OpColor("rg", header_color), OpColor("RG", header_color), OpBT, OpTr(0),
         OpTf(header_font_size), OpTm(F32Zero, title_x, title_y),
         OpTj(escape_pdf_string(expanded_title)), OpET>>

\* x of a line of a footer zone
ZoneX(zone, line, footer_font_size) ==
    CASE zone = "left" -> F32_50
      [] zone = "center" ->
            F32Half(F32Sub(page_width, estimate_text_width_with_tags(line, footer_font_size)))
      [] zone = "right" ->
            F32Sub(F32Sub(page_width, F32_50), estimate_text_width_with_tags(line, footer_font_size))

\* a placement that keeps the first line at the fixed offset and steps down
LineY_FirstLineFixed(num_lines, i, line_height) ==
    F32Sub(F32_30, F32Mul(F32FromInt(i), line_height))

\* y of line i (from 0) of a footer zone of num_lines lines
LineY(num_lines, i, line_height) ==
    LET footer_top == F32Add(F32_30, F32Mul(F32FromInt(num_lines - 1), line_height))
    IN F32Sub(footer_top, F32Mul(F32FromInt(i), line_height))

\* the lines of a footer zone: placeholders expanded, then split
ZoneLines(text, page_num, total_pages, opts) ==
    parse_multiline_text(expand_placeholders(text, page_num, total_pages, opts.date))

\* one of the three footer blocks of generate_header_footer_content
FooterOps(zone, field, page_num, total_pages, opts) ==
    IF field = None THEN << >>
    ELSE LET footer_font_size == effective_footer_font_size(opts)
             line_height == F32Mul(footer_font_size, F32_1_2)
             lines == ZoneLines(field[1], page_num, total_pages, opts)
         IN Concat([j \in 1..Len(lines) |->
                generate_line_with_font_tags(lines[j], ZoneX(zone, lines[j], footer_font_size),
                                             LineY(Len(lines), j - 1, line_height),
                                             footer_font_size)])


----------------------------------------------------------------------------
(* The state of add_headers_footers while it is not running *)

StampIdle ==
    /\ sfile = NewDocument
    /\ sdoc = NewDocument
    /\ orig = NewDocument
    /\ orig0 = NewDocument
    /\ spc = "idle"
    /\ spage = 0
    /\ pages = << >>
    /\ page_count = 0
    /\ font_id = <<0, 0>>
    /\ xobject_id = <<0, 0>>
    /\ xobject_of = << >>
    /\ options = DefaultOptions
    /\ passes = 0

(* The text layer, overlay_watermark and the command line while they are not
   running *)

NoCall == [fn |-> "none"]

FnIdle ==
    /\ call = NoCall
    /\ ret = << >>
    /\ fpc = "off"

OverlayIdle ==
    /\ source_doc = NewDocument
    /\ watermark_doc = NewDocument
    /\ source0 = NewDocument
    /\ id_map = << >>
    /\ opc = "off"
    /\ oidx = 0
    /\ oresult = NoResult
    /\ ofile = Absent

NoArgs == [cmd |-> "none"]

CliIdle ==
    /\ argv = << >>
    /\ hargs = NoArgs
    /\ cmd_result = [k |-> "none"]
    /\ temp_merged = << >>
    /\ builds = << >>

----------------------------------------------------------------------------
(* merge_pdfs, src/pdf/merge.rs *)

InputLists == UNION {[1..n -> InputPaths] : n \in 0..MaxInputs}

MergeInit ==
    /\ input_paths \in InputLists
    /\ output_path \in OutputPaths
    /\ \E out \in {Absent, Garbage} : fs = InitialFiles(out)
    /\ fs0 = fs
    /\ pc = "start"
    /\ idx = 0
    /\ documents = << >>
    /\ max_id = 0
    /\ page_ids = << >>
    /\ objects = NoObjects
    /\ merged_doc = NewDocument
    /\ pages_id = <<0, 0>>
    /\ catalog_id = <<0, 0>>
    /\ result = NoResult
    /\ parsed = {}
    /\ ranges = << >>
    /\ read_back = NoResult
    /\ StampIdle
    /\ FnIdle
    /\ OverlayIdle
    /\ CliIdle

\* merge_pdfs without the test for an empty list
CheckInputs_NoEmptyTest ==
    /\ pc = "start"
    /\ pc' = "validate"
    /\ idx' = 1
    /\ UNCHANGED <<fs, fs0, input_paths, output_path, documents, max_id, page_ids,
                   objects, merged_doc, pages_id, catalog_id, result, parsed, ranges,
                   read_back>>
    /\ UNCHANGED <<svars, fvars, ovars, cvars>>

\* if options.input_paths.is_empty() { return Err(...) }
CheckInputs ==
    /\ pc = "start"
    /\ IF input_paths = << >>
       THEN /\ result' = ErrGeneral(NoInputFilesMsg)
            /\ pc' = "failed"
            /\ idx' = idx
       ELSE /\ pc' = "validate"
            /\ idx' = 1
            /\ result' = result
    /\ UNCHANGED <<fs, fs0, input_paths, output_path, documents, max_id, page_ids,
                   objects, merged_doc, pages_id, catalog_id, parsed, ranges, read_back>>
    /\ UNCHANGED <<svars, fvars, ovars, cvars>>

\* a merge_pdfs that creates its output file once the paths are validated,
\* before the inputs are loaded
ValidatePath_CreatesOutput ==
    /\ pc = "validate"
    /\ IF idx > Len(input_paths)
       THEN /\ pc' = "load"
            /\ idx' = 1
            /\ result' = result
            /\ fs' = [fs EXCEPT ![output_path] = Garbage]
       ELSE IF ~(fs[input_paths[idx]].k # "absent")
       THEN /\ result' = ErrFileNotFound(input_paths[idx])
            /\ pc' = "failed"
            /\ idx' = idx
            /\ fs' = fs
       ELSE /\ idx' = idx + 1
            /\ pc' = pc
            /\ result' = result
            /\ fs' = fs
    /\ UNCHANGED <<fs0, input_paths, output_path, documents, max_id, page_ids,
                   objects, merged_doc, pages_id, catalog_id, parsed, ranges, read_back>>
    /\ UNCHANGED <<svars, fvars, ovars, cvars>>

\* for path in &options.input_paths { if !path.exists() { return Err(FileNotFound) } }
ValidatePath ==
    /\ pc = "validate"
    /\ IF idx > Len(input_paths)
       THEN /\ pc' = "load"
            /\ idx' = 1
            /\ result' = result
       ELSE IF ~exists(fs, input_paths[idx])
       THEN /\ result' = ErrFileNotFound(input_paths[idx])
            /\ pc' = "failed"
            /\ idx' = idx
       ELSE /\ idx' = idx + 1
            /\ pc' = pc
            /\ result' = result
    /\ UNCHANGED <<fs, fs0, input_paths, output_path, documents, max_id, page_ids,
                   objects, merged_doc, pages_id, catalog_id, parsed, ranges, read_back>>
    /\ UNCHANGED <<svars, fvars, ovars, cvars>>

\* a zero-page document that is let through
HasNoPages_Never(doc) == FALSE

\* if doc.get_pages().is_empty()
HasNoPages(doc) == get_pages(doc) = << >>

\* for path in &options.input_paths { let doc = Document::load(path)?; ... }
\* followed, when the loop is over, by the initialisation of max_id, page_ids
\* and objects
LoadDocument ==
    /\ pc = "load"
    /\ IF idx > Len(input_paths)
       THEN /\ pc' = "absorb"
            /\ idx' = 1
            /\ max_id' = 1
            /\ page_ids' = << >>
            /\ objects' = NoObjects
            /\ UNCHANGED <<result, documents, parsed>>
       ELSE /\ parsed' = parsed \cup {input_paths[idx]}
            /\ UNCHANGED <<max_id, page_ids, objects>>
            /\ IF ~LoadOk(fs, input_paths[idx])
               THEN /\ result' = ErrPdf
                    /\ pc' = "failed"
                    /\ UNCHANGED <<idx, documents>>
               ELSE IF HasNoPages(fs[input_paths[idx]].doc)
               THEN /\ result' = ErrEmptyPdf(input_paths[idx])
                    /\ pc' = "failed"
                    /\ UNCHANGED <<idx, documents>>
               ELSE /\ documents' = Append(documents, fs[input_paths[idx]].doc)
                    /\ idx' = idx + 1
                    /\ UNCHANGED <<pc, result>>
    /\ UNCHANGED <<fs, fs0, input_paths, output_path, merged_doc, pages_id,
                   catalog_id, ranges, read_back>>
    /\ UNCHANGED <<svars, fvars, ovars, cvars>>

\* page ids that replace the ones collected so far
extend_page_ids_Overwrites(ids, more) == more

\* page_ids.extend(pages.into_iter().map(|(_, id)| id))
extend_page_ids(ids, more) == ids \o more

\* one round of: for mut doc in documents { renumber; max_id = doc.max_id + 1;
\* page_ids.extend(pages); objects.extend(doc.objects) }
AbsorbedDoc(doc, start) == renumber_objects_with(doc, start)

AbsorbDocument ==
    /\ pc = "absorb"
    /\ IF idx > Len(documents)
       THEN /\ pc' = "build"
            /\ UNCHANGED <<idx, max_id, page_ids, objects, ranges>>
       ELSE LET doc == AbsorbedDoc(documents[idx], max_id) IN
            /\ max_id' = doc.max_id + 1
            /\ page_ids' = extend_page_ids(page_ids, get_pages(doc))
            /\ objects' = doc.objects @@ objects
            /\ ranges' = Append(ranges, DOMAIN doc.objects)
            /\ idx' = idx + 1
            /\ pc' = pc
    /\ UNCHANGED <<fs, fs0, input_paths, output_path, documents, merged_doc,
                   pages_id, catalog_id, result, parsed, read_back>>
    /\ UNCHANGED <<svars, fvars, ovars, cvars>>

\* a store whose counter is left where Document::with_version put it
MergedStore_CounterNotSet(objs, mid) == [objects |-> objs, max_id |-> 0, trailer |-> EmptyDict]

\* Document::with_version, objects.extend, merged_doc.max_id = max_id - 1
MergedStore(objs, mid) == [objects |-> objs, max_id |-> mid - 1, trailer |-> EmptyDict]

\* a Kids array kept in id order instead of page order
KidsOf_SortedById(ids) ==
    LET set == {ids[j] : j \in 1..Len(ids)} IN
    [j \in 1..Cardinality(set) |->
        Ref(CHOOSE id \in set : Cardinality({x \in set : IdLess(x, id)}) = j - 1)]

\* the Kids array: page_ids.iter().map(Reference).collect()
KidsOf(ids) == [j \in 1..Len(ids) |-> Ref(ids[j])]

PagesObject(ids) ==
    Dict([Type |-> Name("Pages"), Count |-> Integer(Len(ids)), Kids |-> Arr(KidsOf(ids))])

CatalogObject(pid) == Dict([Type |-> Name("Catalog"), Pages |-> Ref(pid)])

\* lines 85-121: the new store, the Pages root, the Catalog and the trailer
BuildTree ==
    /\ pc = "build"
    /\ LET d0 == MergedStore(objects, max_id)
           pid == new_object_id(d0)
           d1 == [d0 EXCEPT !.max_id = pid[1]]
           cid == new_object_id(d1)
           d2 == [d1 EXCEPT !.max_id = cid[1]]
       IN /\ pages_id' = pid
          /\ catalog_id' = cid
          /\ merged_doc' =
                [d2 EXCEPT !.objects = (pid :> PagesObject(page_ids)) @@
                                       (cid :> CatalogObject(pid)) @@ d2.objects,
                           !.trailer = DictSet(d2.trailer, "Root", Ref(cid))]
    /\ pc' = "parents"
    /\ UNCHANGED <<fs, fs0, input_paths, output_path, idx, documents, max_id,
                   page_ids, objects, result, parsed, ranges, read_back>>
    /\ UNCHANGED <<svars, fvars, ovars, cvars>>

\* a loop that gives a Parent only to the pages that have none
WithParent_KeepsExisting(o, pid) ==
    IF IsDict(o) /\ ~Has(o.v, "Parent") THEN Dict(DictSet(o.v, "Parent", Ref(pid))) ELSE o

\* for &page_id in &page_ids { dict.set("Parent", Reference(pages_id)) }
WithParent(o, pid) == IF IsDict(o) THEN Dict(DictSet(o.v, "Parent", Ref(pid))) ELSE o

SetParents ==
    /\ pc = "parents"
    /\ LET targets == {page_ids[j] : j \in 1..Len(page_ids)} IN
       merged_doc' =
          [merged_doc EXCEPT !.objects =
              [id \in DOMAIN merged_doc.objects |->
                  IF id \in targets THEN WithParent(merged_doc.objects[id], pages_id)
                  ELSE merged_doc.objects[id]]]
    /\ pc' = "save"
    /\ UNCHANGED <<fs, fs0, input_paths, output_path, idx, documents, max_id,
                   page_ids, objects, pages_id, catalog_id, result, parsed, ranges,
                   read_back>>
    /\ UNCHANGED <<svars, fvars, ovars, cvars>>

\* merged_doc.compress(); merged_doc.save(&options.output_path)?; Ok(())
Saved(doc) == Pdf(compress(doc))

SaveMerged ==
    /\ pc = "save"
    /\ merged_doc' = compress(merged_doc)
    /\ fs' = [fs EXCEPT ![output_path] = Saved(merged_doc)]
    /\ result' = Ok
    /\ pc' = "done"
    /\ UNCHANGED <<fs0, input_paths, output_path, idx, documents, max_id, page_ids,
                   objects, pages_id, catalog_id, parsed, ranges, read_back>>
    /\ UNCHANGED <<svars, fvars, ovars, cvars>>

----------------------------------------------------------------------------
(* count_pages, src/pdf/metadata.rs *)

OkCount(n) == [k |-> "Ok", n |-> n]

count_pages_from_catalog(doc) ==
    IF ~Has(doc.trailer, "Root") THEN ErrGeneral(<<"No", "Root", "in", "trailer">>)
    ELSE IF ~IsRef(doc.trailer["Root"]) THEN ErrGeneral(<<"Root", "is", "not", "a", "reference">>)
    ELSE LET cid == doc.trailer["Root"].id IN
    IF cid \notin DOMAIN doc.objects THEN ErrPdf
    ELSE IF ~IsDict(doc.objects[cid]) THEN ErrGeneral(<<"Catalog", "is", "not", "a", "dictionary">>)
    ELSE LET cat == doc.objects[cid].v IN
    IF ~Has(cat, "Pages") THEN ErrGeneral(<<"No", "Pages", "in", "catalog">>)
    ELSE IF ~IsRef(cat["Pages"]) THEN ErrGeneral(<<"Pages", "is", "not", "a", "reference">>)
    ELSE LET pid == cat["Pages"].id IN
    IF pid \notin DOMAIN doc.objects THEN ErrPdf
    ELSE IF ~IsDict(doc.objects[pid]) THEN ErrGeneral(<<"Pages", "is", "not", "a", "dictionary">>)
    ELSE LET pages_dict == doc.objects[pid].v IN
    IF ~Has(pages_dict, "Count") THEN ErrGeneral(<<"No", "Count", "in", "Pages">>)
    ELSE IF pages_dict["Count"].t # "int" THEN ErrGeneral(<<"Count", "is", "not", "an", "integer">>)
    ELSE OkCount(pages_dict["Count"].v)

count_pages(files, p) ==
    IF ~exists(files, p) THEN ErrFileNotFound(p)
    ELSE IF ~LoadOk(files, p) THEN ErrPdf
    ELSE LET r == count_pages_from_catalog(files[p].doc) IN
         IF r.k = "Ok" /\ r.n = 0 THEN ErrEmptyPdf(p) ELSE r

\* the caller reads the page count of the merged output back
CountOutput ==
    /\ pc = "done"
    /\ read_back = NoResult
    /\ read_back' = count_pages(fs, output_path)
    /\ UNCHANGED <<fs, fs0, input_paths, output_path, pc, idx, documents, max_id,
                   page_ids, objects, merged_doc, pages_id, catalog_id, result,
                   parsed, ranges>>
    /\ UNCHANGED <<svars, fvars, ovars, cvars>>

MergeNext ==
    \/ CheckInputs
    \/ ValidatePath
    \/ LoadDocument
    \/ AbsorbDocument
    \/ BuildTree
    \/ SetParents
    \/ SaveMerged
    \/ CountOutput

Spec == MergeInit /\ [][MergeNext]_vars

----------------------------------------------------------------------------
(* Content streams, as sequences of operator tokens *)

Tokens == {"q", "Q", "cm"}

ContentsUpTo(n) == UNION {[1..k -> Tokens] : k \in 0..n}

\* count_graphics_state_imbalance: +1 for every q, -1 for every Q
RECURSIVE count_graphics_state_imbalance(_)
count_graphics_state_imbalance(c) ==
    IF c = << >> THEN 0
    ELSE count_graphics_state_imbalance(SubSeq(c, 1, Len(c) - 1))
         + (CASE c[Len(c)] = "q" -> 1 [] c[Len(c)] = "Q" -> -1 [] OTHER -> 0)

\* every q matched by a later Q and the depth never negative
Balanced(c) ==
    /\ count_graphics_state_imbalance(c) = 0
    /\ \A k \in 1..Len(c) : count_graphics_state_imbalance(SubSeq(c, 1, k)) >= 0

\* the entries of a page's Contents: a single reference, an array, or none
ContentEntries(d) ==
    IF ~Has(d, "Contents") THEN << >>
    ELSE IF IsRef(d["Contents"]) THEN <<d["Contents"]>>
    ELSE IF IsArr(d["Contents"]) THEN d["Contents"].v
    ELSE << >>

\* a page's effective content: the concatenation, in array order, of its
\* Contents stream objects
LogicalContent(doc, page_id) ==
    LET es == ContentEntries(doc.objects[page_id].v) IN
    Concat([j \in 1..Len(es) |->
              IF IsRef(es[j]) /\ es[j].id \in DOMAIN doc.objects /\ IsStream(doc.objects[es[j].id])
              THEN doc.objects[es[j].id].content ELSE << >>])

----------------------------------------------------------------------------
(* The documents add_headers_footers is run on: two sibling pages under one
   Pages node.  layout says where the pages take their Resources from; shape
   says what the first page's Contents is; c is the first page's content. *)

Layouts == {"inherited", "shared", "direct", "none"}
Shapes == {"ref", "array", "absent"}

SomeResources ==
    Dict([Font |-> Dict([F1 |-> Ref(<<8, 0>>)]), XObject |-> Dict([Im1 |-> Ref(<<10, 0>>)])])

PageResources(layout) ==
    CASE layout = "shared" -> ("Resources" :> Ref(<<9, 0>>))
      [] layout = "direct" -> ("Resources" :> SomeResources)
      [] OTHER -> EmptyDict

NodeResources(layout) ==
    IF layout = "inherited" THEN ("Resources" :> SomeResources) ELSE EmptyDict

PageContents(shape) ==
    CASE shape = "ref" -> ("Contents" :> Ref(<<5, 0>>))
      [] shape = "array" -> ("Contents" :> Arr(<<Ref(<<5, 0>>), Ref(<<6, 0>>)>>))
      [] OTHER -> EmptyDict

FirstPart(shape, c) == IF shape = "array" /\ c # << >> THEN <<Head(c)>> ELSE c
SecondPart(shape, c) == IF shape = "array" /\ c # << >> THEN Tail(c) ELSE << >>

StampDoc(layout, shape, c) ==
    [objects |->
        (<<1, 0>> :> Dict([Type |-> Name("Catalog"), Pages |-> Ref(<<2, 0>>)])) @@
        (<<2, 0>> :> Dict([Type |-> Name("Pages"),
                           Kids |-> Arr(<<Ref(<<3, 0>>), Ref(<<4, 0>>)>>),
                           Count |-> Integer(2)] @@ NodeResources(layout))) @@
        (<<3, 0>> :> Dict([Type |-> Name("Page"), Parent |-> Ref(<<2, 0>>)]
                           @@ PageContents(shape) @@ PageResources(layout))) @@
        (<<4, 0>> :> Dict([Type |-> Name("Page"), Parent |-> Ref(<<2, 0>>),
                           Contents |-> Ref(<<7, 0>>)] @@ PageResources(layout))) @@
        (<<5, 0>> :> Stream(EmptyDict, FirstPart(shape, c))) @@
        (<<6, 0>> :> Stream(EmptyDict, SecondPart(shape, c))) @@
        (<<7, 0>> :> Stream(EmptyDict, <<"q", "cm", "Q">>)) @@
        (<<8, 0>> :> Dict([Type |-> Name("Font")])) @@
        (<<9, 0>> :> SomeResources) @@
        (<<10, 0>> :> Stream([Type |-> Name("XObject"), Subtype |-> Name("Image")], << >>)),
     max_id |-> 10,
     trailer |-> [Root |-> Ref(<<1, 0>>)]]

----------------------------------------------------------------------------
(* add_headers_footers, src/pdf/headers.rs *)

\* embed_liberation_serif: the font file stream, the font descriptor and the
\* font, added in that order; the font is the last object added
embed_liberation_serif(doc) ==
    LET d1 == add_object(doc, Stream([Length1 |-> Name("len")], <<"ttf">>))
        d2 == add_object(d1, Dict([Type |-> Name("FontDescriptor"),
                                   FontName |-> Name("LiberationSerif"),
                                   FontFile2 |-> Ref(<<d1.max_id, 0>>)]))
    IN add_object(d2, Dict([Type |-> Name("Font"), Subtype |-> Name("TrueType"),
                            BaseFont |-> Name("LiberationSerif"),
                            Encoding |-> Name("WinAnsiEncoding"),
                            FontDescriptor |-> Ref(<<d2.max_id, 0>>)]))

\* a generate_header_footer_content that draws the title whatever is_first_page
generate_header_footer_content_TitleOnEveryPage(page_num, total_pages, is_first_page, opts) ==
    (IF opts.title # None
     THEN TitleOps(opts.title[1], page_num, total_pages, opts) ELSE << >>)
    \o <<OpColor("rg", footer_color_pdf(opts)), OpColor("RG", footer_color_pdf(opts))>>
    \o FooterOps("left", opts.footer_left, page_num, total_pages, opts)
    \o FooterOps("center", opts.footer_center, page_num, total_pages, opts)
    \o FooterOps("right", opts.footer_right, page_num, total_pages, opts)

\* generate_header_footer_content: the title block on the first page when a
\* title is set, the footer colour, then the left, centre and right footers
generate_header_footer_content(page_num, total_pages, is_first_page, opts) ==
    (IF is_first_page /\ opts.title # None
     THEN TitleOps(opts.title[1], page_num, total_pages, opts) ELSE << >>)
    \o <<OpColor("rg", footer_color_pdf(opts)), OpColor("RG", footer_color_pdf(opts))>>
    \o FooterOps("left", opts.footer_left, page_num, total_pages, opts)
    \o FooterOps("center", opts.footer_center, page_num, total_pages, opts)
    \o FooterOps("right", opts.footer_right, page_num, total_pages, opts)

\* create_form_xobject: a Form XObject stream with BBox, the identity Matrix
\* and its own Resources naming the font F1
FormXObject(content, fid) ==
    Stream([Type |-> Name("XObject"), Subtype |-> Name("Form"), FormType |-> Integer(1),
            BBox |-> Arr(<<Integer(0), Integer(0), Integer(612), Integer(792)>>),
            Matrix |-> Arr(<<Integer(1), Integer(0), Integer(0), Integer(1), Integer(0), Integer(0)>>),
            Resources |-> Dict([Font |-> Dict([F1 |-> Ref(fid)])])],
           content)

create_form_xobject(doc, content, fid) == add_object(doc, FormXObject(content, fid))

\* the first half of add_xobject_to_page_resources: the dictionary the page's
\* Resources entry gives, dereferenced once; empty when there is none
resources_dict(doc, page_id) ==
    LET page_dict == doc.objects[page_id].v IN
    IF ~Has(page_dict, "Resources") THEN EmptyDict
    ELSE LET res == page_dict["Resources"] IN
         IF IsDict(res) THEN res.v
         ELSE IF IsRef(res)
              THEN IF res.id \in DOMAIN doc.objects /\ IsDict(doc.objects[res.id])
                   THEN doc.objects[res.id].v ELSE EmptyDict
         ELSE EmptyDict

\* the second half: HeaderFooter is set in (a copy of) the XObject
\* sub-dictionary
WithHeaderFooter(res, xid) ==
    LET xobjects == IF Has(res, "XObject") /\ IsDict(res["XObject"])
                    THEN res["XObject"].v ELSE EmptyDict
    IN DictSet(res, "XObject", Dict(DictSet(xobjects, "HeaderFooter", Ref(xid))))

\* an add_xobject_to_page_resources that writes into the dictionary the page
\* shares: the indirectly referenced object, or the parent's Resources
add_xobject_to_page_resources_InPlace(doc, page_id, xid) ==
    LET page_dict == doc.objects[page_id].v
        parent == doc.objects[page_dict["Parent"].id].v
    IN
    IF Has(page_dict, "Resources") /\ IsRef(page_dict["Resources"])
    THEN [doc EXCEPT !.objects[page_dict["Resources"].id] =
                        Dict(WithHeaderFooter(resources_dict(doc, page_id), xid))]
    ELSE IF ~Has(page_dict, "Resources") /\ Has(parent, "Resources") /\ IsDict(parent["Resources"])
    THEN [doc EXCEPT !.objects[page_dict["Parent"].id] =
                        Dict(DictSet(parent, "Resources",
                                     Dict(WithHeaderFooter(parent["Resources"].v, xid))))]
    ELSE [doc EXCEPT !.objects[page_id] =
             Dict(DictSet(page_dict, "Resources",
                          Dict(WithHeaderFooter(resources_dict(doc, page_id), xid))))]

\* add_xobject_to_page_resources: the page gets a direct Resources dictionary
add_xobject_to_page_resources(doc, page_id, xid) ==
    IF ~IsDict(doc.objects[page_id]) THEN doc
    ELSE [doc EXCEPT !.objects[page_id] =
             Dict(DictSet(doc.objects[page_id].v, "Resources",
                          Dict(WithHeaderFooter(resources_dict(doc, page_id), xid))))]

\* b"q\n"
QContent == <<"q">>

\* a restore-and-overlay stream without the leading restore
QxContent_NoRestore == <<"q", "q", "cm", "Do", "Q", "Q">>

\* b" Q\nq\nq 1 0 0 1 0 0 cm /HeaderFooter Do Q\nQ\n"
QxContent == <<"Q", "q", "q", "cm", "Do", "Q", "Q">>

\* a wrapping that keeps only the first entry of a Contents array
new_contents_FirstOnly(existing, q_stream_id, qx_stream_id) ==
    <<Ref(q_stream_id)>> \o (IF existing = << >> THEN << >> ELSE <<Head(existing)>>)
                         \o <<Ref(qx_stream_id)>>

\* the match on existing_content: the save stream, the existing entries in
\* order, the restore-and-overlay stream
new_contents(existing, q_stream_id, qx_stream_id) ==
    <<Ref(q_stream_id)>> \o existing \o <<Ref(qx_stream_id)>>

wrap_content_and_append_xobject(doc, page_id) ==
    LET d1 == add_object(doc, Stream(EmptyDict, QContent))
        q_stream_id == <<d1.max_id, 0>>
        d2 == add_object(d1, Stream(EmptyDict, QxContent))
        qx_stream_id == <<d2.max_id, 0>>
    IN IF ~IsDict(d2.objects[page_id]) THEN d2
       ELSE [d2 EXCEPT !.objects[page_id] =
                Dict(DictSet(d2.objects[page_id].v, "Contents",
                             Arr(new_contents(ContentEntries(d2.objects[page_id].v),
                                              q_stream_id, qx_stream_id))))]

MergeIdle ==
    /\ fs = [p \in AllPaths |-> Absent]
    /\ fs0 = fs
    /\ input_paths = << >>
    /\ output_path = "out.pdf"
    /\ pc = "off"
    /\ idx = 0
    /\ documents = << >>
    /\ max_id = 0
    /\ page_ids = << >>
    /\ objects = NoObjects
    /\ merged_doc = NewDocument
    /\ pages_id = <<0, 0>>
    /\ catalog_id = <<0, 0>>
    /\ result = NoResult
    /\ parsed = {}
    /\ ranges = << >>
    /\ read_back = NoResult

\* the options the stamping runs are given
StampOptions ==
    {[DefaultOptions EXCEPT !.title = tf[1], !.footer_right = tf[2]] :
        tf \in {<<None, None>>, <<Some(<<"T">>), None>>, <<Some(<<"T">>), Some(<<"[", "p", "a", "g", "e", "]", "|", "x">>)>>}}

StampInit ==
    /\ MergeIdle
    /\ FnIdle
    /\ OverlayIdle
    /\ CliIdle
    /\ \E layout \in Layouts, shape \in Shapes, c \in ContentsUpTo(MaxContentLen) :
          /\ shape = "absent" => c = << >>
          /\ sfile = StampDoc(layout, shape, c)
    /\ orig0 = sfile
    /\ sdoc = NewDocument
    /\ orig = NewDocument
    /\ spc = "idle"
    /\ spage = 0
    /\ pages = << >>
    /\ page_count = 0
    /\ font_id = <<0, 0>>
    /\ xobject_id = <<0, 0>>
    /\ xobject_of = << >>
    /\ options \in StampOptions
    /\ passes = 0

\* Document::load, decompress, page_count, embed_liberation_serif and the
\* collection of the page ids
BeginPass ==
    /\ spc = "idle"
    /\ passes < MaxPasses
    /\ LET d0 == decompress(sfile)
           d1 == embed_liberation_serif(d0)
       IN /\ orig' = d0
          /\ page_count' = Len(get_pages(d0))
          /\ sdoc' = d1
          /\ font_id' = <<d1.max_id, 0>>
          /\ pages' = get_pages(d1)
          /\ spc' = IF get_pages(d1) = << >> THEN "save" ELSE "xobject"
    /\ spage' = 1
    /\ xobject_of' = << >>
    /\ UNCHANGED <<sfile, orig0, xobject_id, options, passes>>
    /\ UNCHANGED <<mvars, fvars, ovars, cvars>>

\* generate_header_footer_content and create_form_xobject for the page
CreateXObject ==
    /\ spc = "xobject"
    /\ LET content == generate_header_footer_content(spage, page_count, spage = 1, options)
           d1 == create_form_xobject(sdoc, content, font_id)
       IN /\ sdoc' = d1
          /\ xobject_id' = <<d1.max_id, 0>>
          /\ xobject_of' = Append(xobject_of, <<d1.max_id, 0>>)
    /\ spc' = "resources"
    /\ UNCHANGED <<sfile, orig, orig0, spage, pages, page_count, font_id, options, passes>>
    /\ UNCHANGED <<mvars, fvars, ovars, cvars>>

AddResources ==
    /\ spc = "resources"
    /\ sdoc' = add_xobject_to_page_resources(sdoc, pages[spage], xobject_id)
    /\ spc' = "wrap"
    /\ UNCHANGED <<sfile, orig, orig0, spage, pages, page_count, font_id, xobject_id,
                   xobject_of, options, passes>>
    /\ UNCHANGED <<mvars, fvars, ovars, cvars>>

WrapContent ==
    /\ spc = "wrap"
    /\ sdoc' = wrap_content_and_append_xobject(sdoc, pages[spage])
    /\ IF spage < Len(pages)
       THEN spage' = spage + 1 /\ spc' = "xobject"
       ELSE spage' = spage /\ spc' = "save"
    /\ UNCHANGED <<sfile, orig, orig0, pages, page_count, font_id, xobject_id,
                   xobject_of, options, passes>>
    /\ UNCHANGED <<mvars, fvars, ovars, cvars>>

\* doc.compress(); doc.save(output_path)
SavePass ==
    /\ spc = "save"
    /\ sdoc' = compress(sdoc)
    /\ sfile' = compress(sdoc)
    /\ passes' = passes + 1
    /\ spc' = "idle"
    /\ UNCHANGED <<orig, orig0, spage, pages, page_count, font_id, xobject_id,
                   xobject_of, options>>
    /\ UNCHANGED <<mvars, fvars, ovars, cvars>>

StampNext ==
    \/ BeginPass
    \/ CreateXObject
    \/ AddResources
    \/ WrapContent
    \/ SavePass

SpecStamp == StampInit /\ [][StampNext]_vars

----------------------------------------------------------------------------
(* overlay_watermark, src/pdf/merge.rs *)

\* a renumbering that rewrites a reference only where the object itself is one
renumber_object_references_TopLevel(object, map) ==
    IF object.t = "ref" /\ object.id \in DOMAIN map THEN Ref(map[object.id]) ELSE object

\* renumber_object_references
RECURSIVE renumber_object_references(_, _)
renumber_object_references(object, map) ==
    CASE object.t = "ref" ->
            IF object.id \in DOMAIN map THEN Ref(map[object.id]) ELSE Ref(object.id)
      [] object.t = "arr" ->
            Arr([j \in 1..Len(object.v) |-> renumber_object_references(object.v[j], map)])
      [] object.t = "dict" ->
            Dict([k \in DOMAIN object.v |-> renumber_object_references(object.v[k], map)])
      [] object.t = "stream" ->
            [object EXCEPT !.dict = [k \in DOMAIN object.dict |->
                                        renumber_object_references(object.dict[k], map)]]
      [] OTHER -> object

\* get_page_content_and_resources: the content references and the Resources
\* of watermark page page_num, with remapped ids; None when the page is
\* missing or not a dictionary
get_page_content_and_resources(doc, page_num, map) ==
    LET wpages == get_pages(doc) IN
    IF page_num > Len(wpages) \/ ~IsDict(doc.objects[wpages[page_num]]) THEN None
    ELSE LET page_dict == doc.objects[wpages[page_num]].v
             remapped_content == renumber_object_references(page_dict["Contents"], map)
             content_refs ==
                 IF ~Has(page_dict, "Contents") THEN << >>
                 ELSE IF IsRef(remapped_content) THEN <<remapped_content>>
                 ELSE IF IsArr(remapped_content) THEN remapped_content.v
                 ELSE <<remapped_content>>
             resources ==
                 IF Has(page_dict, "Resources")
                 THEN renumber_object_references(page_dict["Resources"], map)
                 ELSE Dict(EmptyDict)
         IN Some([content_refs |-> content_refs, resources |-> resources])

\* the inner match of merge_resources for one key of the watermark
\* dictionary
MergedEntry(merged_dict, key, value) ==
    IF Has(merged_dict, key) /\ IsDict(merged_dict[key]) /\ IsDict(value)
    THEN Dict([subkey \in DOMAIN merged_dict[key].v \cup DOMAIN value.v |->
                  IF subkey \in DOMAIN value.v THEN value.v[subkey]
                  ELSE merged_dict[key].v[subkey]])
    ELSE value

\* merge_resources: the page dictionary with its Resources entry set to the
\* merged resources
merge_resources(page_dict, watermark_resources) ==
    LET existing == IF Has(page_dict, "Resources") THEN page_dict["Resources"]
                    ELSE Dict(EmptyDict)
        merged_resources ==
            IF IsDict(existing) /\ IsDict(watermark_resources)
            THEN Dict([key \in DOMAIN existing.v \cup DOMAIN watermark_resources.v |->
                          IF key \in DOMAIN watermark_resources.v
                          THEN MergedEntry(existing.v, key, watermark_resources.v[key])
                          ELSE existing.v[key]])
            ELSE existing
    IN DictSet(page_dict, "Resources", merged_resources)

\* the match on existing_content of overlay_watermark
OverlaidContents(page_dict, watermark_content_refs) ==
    IF Has(page_dict, "Contents") /\ IsRef(page_dict["Contents"])
    THEN Arr(<<page_dict["Contents"]>> \o watermark_content_refs)
    ELSE IF Has(page_dict, "Contents") /\ IsArr(page_dict["Contents"])
    THEN Arr(page_dict["Contents"].v \o watermark_content_refs)
    ELSE Arr(watermark_content_refs)

\* the watermark documents: one or two pages under one Pages node; wres says
\* how the pages hold their Resources
WatermarkLayouts == {"direct", "indirect", "none"}

DonorResources ==
    Dict([Font |-> Dict([F1 |-> Ref(<<8, 0>>), F2 |-> Ref(<<8, 0>>)]),
          ProcSet |-> Arr(<<Name("PDF"), Name("Text")>>)])

WatermarkPageResources(wres) ==
    CASE wres = "direct" -> ("Resources" :> DonorResources)
      [] wres = "indirect" -> ("Resources" :> Ref(<<11, 0>>))
      [] OTHER -> EmptyDict

WatermarkDoc(wres, npages) ==
    [objects |->
        (<<1, 0>> :> Dict([Type |-> Name("Catalog"), Pages |-> Ref(<<2, 0>>)])) @@
        (<<2, 0>> :> Dict([Type |-> Name("Pages"),
                           Kids |-> Arr(IF npages = 2 THEN <<Ref(<<3, 0>>), Ref(<<4, 0>>)>>
                                        ELSE <<Ref(<<3, 0>>)>>),
                           Count |-> Integer(npages)])) @@
        (<<3, 0>> :> Dict([Type |-> Name("Page"), Parent |-> Ref(<<2, 0>>),
                           Contents |-> Ref(<<5, 0>>)] @@ WatermarkPageResources(wres))) @@
        (<<4, 0>> :> Dict([Type |-> Name("Page"), Parent |-> Ref(<<2, 0>>),
                           Contents |-> Arr(<<Ref(<<6, 0>>), Ref(<<7, 0>>)>>)]
                           @@ WatermarkPageResources(wres))) @@
        (<<5, 0>> :> Stream(EmptyDict, <<"BT", "Tj", "ET">>)) @@
        (<<6, 0>> :> Stream(EmptyDict, <<"BT", "Tj">>)) @@
        (<<7, 0>> :> Stream(EmptyDict, <<"ET">>)) @@
        (<<8, 0>> :> Dict([Type |-> Name("Font"),
                           DescendantFonts |-> Arr(<<Dict([FontDescriptor |-> Ref(<<9, 0>>)])>>)])) @@
        (<<9, 0>> :> Dict([Type |-> Name("FontDescriptor"), FontFile2 |-> Ref(<<10, 1>>)])) @@
        (<<10, 1>> :> Stream([Length1 |-> Ref(<<9, 0>>)], <<"ttf">>)) @@
        (<<11, 0>> :> DonorResources),
     max_id |-> 11,
     trailer |-> [Root |-> Ref(<<1, 0>>)]]

\* the source documents: those add_headers_footers is run on, and two whose
\* pages hold a Font category with a name the watermark does not define, as a
\* direct dictionary and as a reference to one
OverlayLayouts == Layouts \cup {"own_fonts", "font_ref"}

OwnFonts == Dict([F1 |-> Ref(<<8, 0>>), F3 |-> Ref(<<8, 0>>)])

OwnResources(layout) ==
    Dict([Font |-> IF layout = "font_ref" THEN Ref(<<11, 0>>) ELSE OwnFonts,
          XObject |-> Dict([Im1 |-> Ref(<<10, 0>>)])])

OverlaySource(layout, shape) ==
    LET c == IF shape = "absent" THEN << >> ELSE <<"q", "cm", "Q">> IN
    IF layout \in Layouts THEN StampDoc(layout, shape, c)
    ELSE LET d == StampDoc("none", shape, c) IN
         [d EXCEPT !.objects =
                      (<<3, 0>> :> Dict(DictSet(d.objects[<<3, 0>>].v, "Resources",
                                                OwnResources(layout)))) @@
                      (<<4, 0>> :> Dict(DictSet(d.objects[<<4, 0>>].v, "Resources",
                                                OwnResources(layout)))) @@
                      (<<11, 0>> :> OwnFonts) @@ d.objects,
                  !.max_id = 11]

OverlayInit ==
    /\ MergeIdle
    /\ StampIdle
    /\ FnIdle
    /\ CliIdle
    /\ \E layout \in OverlayLayouts, shape \in Shapes :
          source0 = OverlaySource(layout, shape)
    /\ \E wres \in WatermarkLayouts, npages \in 1..2 : watermark_doc = WatermarkDoc(wres, npages)
    /\ source_doc = NewDocument
    /\ id_map = << >>
    /\ opc = "start"
    /\ oidx = 0
    /\ oresult = NoResult
    /\ ofile = Absent

PageCountMismatchMsg == <<"Page", "count", "mismatch">>

\* Document::load of both files and the comparison of the page counts
OverlayLoad ==
    /\ opc = "start"
    /\ source_doc' = source0
    /\ IF Len(get_pages(source0)) # Len(get_pages(watermark_doc))
       THEN oresult' = ErrGeneral(PageCountMismatchMsg) /\ opc' = "failed"
       ELSE oresult' = oresult /\ opc' = "import"
    /\ UNCHANGED <<watermark_doc, source0, id_map, oidx, ofile>>
    /\ UNCHANGED <<mvars, svars, fvars, cvars>>

\* the id map, the copy of the watermark's objects and the new max_id
OverlayImport ==
    /\ opc = "import"
    /\ LET id_offset == source_doc.max_id + 1
           map == [old_id \in DOMAIN watermark_doc.objects |->
                       <<old_id[1] + id_offset, old_id[2]>>]
           imported == {map[old_id] : old_id \in DOMAIN watermark_doc.objects}
           source_of(new_id) == CHOOSE old_id \in DOMAIN watermark_doc.objects :
                                    map[old_id] = new_id
       IN /\ id_map' = map
          /\ source_doc' =
                [source_doc EXCEPT
                    !.objects = [id \in DOMAIN source_doc.objects \cup imported |->
                                    IF id \in imported
                                    THEN renumber_object_references(
                                             watermark_doc.objects[source_of(id)], map)
                                    ELSE source_doc.objects[id]],
                    !.max_id = watermark_doc.max_id + id_offset]
    /\ oidx' = 1
    /\ opc' = IF get_pages(source0) = << >> THEN "save" ELSE "pages"
    /\ UNCHANGED <<watermark_doc, source0, oresult, ofile>>
    /\ UNCHANGED <<mvars, svars, fvars, cvars>>

\* one turn of the loop over the source pages: the watermark page's content
\* is appended and its resources are merged
OverlayPage ==
    /\ opc = "pages"
    /\ LET source_page_id == get_pages(source0)[oidx]
           got == get_page_content_and_resources(watermark_doc, oidx, id_map)
           page_obj == source_doc.objects[source_page_id]
       IN source_doc' =
             IF got = None \/ ~IsDict(page_obj) THEN source_doc
             ELSE [source_doc EXCEPT !.objects[source_page_id] =
                      Dict(merge_resources(
                               DictSet(page_obj.v, "Contents",
                                       OverlaidContents(page_obj.v, got[1].content_refs)),
                               got[1].resources))]
    /\ IF oidx < Len(get_pages(source0))
       THEN oidx' = oidx + 1 /\ opc' = "pages"
       ELSE oidx' = oidx /\ opc' = "save"
    /\ UNCHANGED <<watermark_doc, source0, id_map, oresult, ofile>>
    /\ UNCHANGED <<mvars, svars, fvars, cvars>>

\* source_doc.save(output_path)
OverlaySave ==
    /\ opc = "save"
    /\ ofile' = Pdf(source_doc)
    /\ oresult' = Ok
    /\ opc' = "done"
    /\ UNCHANGED <<source_doc, watermark_doc, source0, id_map, oidx>>
    /\ UNCHANGED <<mvars, svars, fvars, cvars>>

OverlayNext ==
    \/ OverlayLoad
    \/ OverlayImport
    \/ OverlayPage
    \/ OverlaySave

SpecOverlay == OverlayInit /\ [][OverlayNext]_vars

----------------------------------------------------------------------------
(* The merge command, src/bin/pdf-handouts.rs: cmd_merge hands the inputs of
   the command line to expand_globs and the result to merge_pdfs *)

\* the arguments that hold one of * ? [ and what glob() yields for them in
\* the directory of the model, in the alphabetical order glob yields
GlobPatterns == {"[ab].pdf", "x*.pdf"}

glob(files, pattern) ==
    IF pattern = "[ab].pdf"
    THEN SelectSeq(<<"a.pdf", "b.pdf">>, LAMBDA p : exists(files, p))
    ELSE << >>

\* the order of PathBuf on the paths of the model
PathRank(p) ==
    CASE p = "a.pdf" -> 1
      [] p = "b.pdf" -> 2
      [] p = "bad.pdf" -> 3
      [] p = "nonexistent.pdf" -> 4
      [] p = "out.pdf" -> 5
      [] p = "zero.pdf" -> 6

\* paths.sort()
sort(paths) == SortSeq(paths, LAMBDA p, q : PathRank(p) < PathRank(q))

\* the loop of expand_globs: a literal is pushed, a pattern is replaced by
\* its matches
RECURSIVE Pushed(_, _)
Pushed(files, patterns) ==
    IF patterns = << >> THEN << >>
    ELSE (IF Head(patterns) \in GlobPatterns THEN glob(files, Head(patterns))
          ELSE <<Head(patterns)>>) \o Pushed(files, Tail(patterns))

Unmatched(files, patterns) ==
    \E j \in 1..Len(patterns) :
        patterns[j] \in GlobPatterns /\ glob(files, patterns[j]) = << >>

\* expand_globs: None for the error "No files matched pattern"
expand_globs(files, patterns) ==
    IF Unmatched(files, patterns) THEN None
    ELSE Some(sort(Pushed(files, patterns)))

CliErr(msg) == [k |-> "Err", kind |-> "Cli", msg |-> msg]
NoFilesMatchedMsg == <<"No", "files", "matched", "pattern">>
InputFileNotFoundMsg == <<"Input", "file", "not", "found">>

MaxArgs == 2

CliArgs == {"a.pdf", "b.pdf", "nonexistent.pdf"} \cup GlobPatterns

ArgLists == UNION {[1..n -> CliArgs] : n \in 1..MaxArgs}

CliInit ==
    /\ argv \in ArgLists
    /\ hargs = NoArgs
    /\ cmd_result = NoResult
    /\ temp_merged = None
    /\ builds = << >>
    /\ input_paths = << >>
    /\ output_path = "out.pdf"
    /\ \E out \in {Absent, Garbage} : fs = InitialFiles(out)
    /\ fs0 = fs
    /\ pc = "cli"
    /\ idx = 0
    /\ documents = << >>
    /\ max_id = 0
    /\ page_ids = << >>
    /\ objects = NoObjects
    /\ merged_doc = NewDocument
    /\ pages_id = <<0, 0>>
    /\ catalog_id = <<0, 0>>
    /\ result = NoResult
    /\ parsed = {}
    /\ ranges = << >>
    /\ read_back = NoResult
    /\ StampIdle
    /\ FnIdle
    /\ OverlayIdle

\* let inputs = expand_globs(inputs)?;
ExpandGlobs ==
    /\ pc = "cli"
    /\ LET expanded == expand_globs(fs, argv) IN
       IF expanded = None
       THEN /\ result' = CliErr(NoFilesMatchedMsg)
            /\ pc' = "failed"
            /\ input_paths' = input_paths
       ELSE /\ input_paths' = expanded[1]
            /\ pc' = "cli_validate"
            /\ result' = result
    /\ UNCHANGED <<fs, fs0, output_path, idx, documents, max_id, page_ids, objects,
                   merged_doc, pages_id, catalog_id, parsed, ranges, read_back>>
    /\ UNCHANGED <<svars, fvars, ovars, cvars>>

\* the validation loop of cmd_merge and the MergeOptions it builds
ValidateInputs ==
    /\ pc = "cli_validate"
    /\ IF \E j \in 1..Len(input_paths) : ~exists(fs, input_paths[j])
       THEN /\ result' = CliErr(InputFileNotFoundMsg)
            /\ pc' = "failed"
       ELSE /\ pc' = "start"
            /\ result' = result
    /\ UNCHANGED <<fs, fs0, input_paths, output_path, idx, documents, max_id, page_ids,
                   objects, merged_doc, pages_id, catalog_id, parsed, ranges, read_back>>
    /\ UNCHANGED <<svars, fvars, ovars, cvars>>

CliNext ==
    \/ ExpandGlobs
    \/ ValidateInputs
    \/ CheckInputs
    \/ ValidatePath
    \/ LoadDocument
    \/ AbsorbDocument
    \/ BuildTree
    \/ SetParents
    \/ SaveMerged
    \/ CountOutput

SpecCli == CliInit /\ [][CliNext]_vars

----------------------------------------------------------------------------
(* Date expressions, src/date.rs.  A date is a record of year, month and
   day; a weekday is its number of days from Monday. *)

\* str::trim, on spaces
RECURSIVE trim_start(_)
trim_start(s) == IF s # << >> /\ Head(s) = " " THEN trim_start(Tail(s)) ELSE s

RECURSIVE trim_end(_)
trim_end(s) ==
    IF s # << >> /\ s[Len(s)] = " " THEN trim_end(SubSeq(s, 1, Len(s) - 1)) ELSE s

trim(s) == trim_end(trim_start(s))

IsDigit(c) == \E k \in 1..10 : Digits[k] = c
DigitValue(c) == (CHOOSE k \in 1..10 : Digits[k] = c) - 1

\* str::parse::<u32> of a string of decimal digits: None unless the string is
\* not empty and all digits
RECURSIVE ValueOf(_)
ValueOf(s) == IF s = << >> THEN 0 ELSE ValueOf(SubSeq(s, 1, Len(s) - 1)) * 10 + DigitValue(s[Len(s)])

parse_u32(s) ==
    IF s # << >> /\ \A k \in 1..Len(s) : IsDigit(s[k]) THEN Some(ValueOf(s)) ELSE None

IsLeap(year) == (year % 4 = 0 /\ year % 100 # 0) \/ year % 400 = 0

DaysIn(year, month) ==
    CASE month \in {4, 6, 9, 11} -> 30
      [] month = 2 -> IF IsLeap(year) THEN 29 ELSE 28
      [] OTHER -> 31

\* NaiveDate::from_ymd_opt
from_ymd_opt(year, month, day) ==
    IF month \in 1..12 /\ day >= 1 /\ day <= DaysIn(year, month)
    THEN Some([year |-> year, month |-> month, day |-> day])
    ELSE None

\* NaiveDate::parse_from_str with three numeric fields and one separator
\* between them; order gives the places of year, month and day
parse_from_str(s, sep, order) ==
    LET fields == split(s, <<sep>>) IN
    IF Len(fields) # 3 THEN None
    ELSE LET year == parse_u32(fields[order[1]])
             month == parse_u32(fields[order[2]])
             day == parse_u32(fields[order[3]])
         IN IF year = None \/ month = None \/ day = None
               \/ Len(fields[order[2]]) > 2 \/ Len(fields[order[3]]) > 2
            THEN None
            ELSE from_ymd_opt(year[1], month[1], day[1])

ExprNone == [expr |-> "None"]
ExprToday == [expr |-> "Today"]
ExprExplicit(date) == [expr |-> "Explicit", date |-> date]
ExprDayOfWeek(day, offset) == [expr |-> "DayOfWeek", day |-> day, offset |-> offset]

DateOk(e) == [k |-> "Ok", v |-> e]
ErrInvalidDateExpression == [k |-> "Err", kind |-> "InvalidDateExpression"]

\* parse_weekday: None for the error "Unknown weekday"
parse_weekday(s) ==
    LET t == to_lowercase(trim(s)) IN
    CASE t \in {<<"m", "o", "n", "d", "a", "y">>, <<"m", "o", "n">>} -> Some(0)
      [] t \in {<<"t", "u", "e", "s", "d", "a", "y">>, <<"t", "u", "e">>} -> Some(1)
      [] t \in {<<"w", "e", "d", "n", "e", "s", "d", "a", "y">>, <<"w", "e", "d">>} -> Some(2)
      [] t \in {<<"t", "h", "u", "r", "s", "d", "a", "y">>, <<"t", "h", "u">>} -> Some(3)
      [] t \in {<<"f", "r", "i", "d", "a", "y">>, <<"f", "r", "i">>} -> Some(4)
      [] t \in {<<"s", "a", "t", "u", "r", "d", "a", "y">>, <<"s", "a", "t">>} -> Some(5)
      [] t \in {<<"s", "u", "n", "d", "a", "y">>, <<"s", "u", "n">>} -> Some(6)
      [] OTHER -> None

\* parse_date_expression
parse_date_expression(e) ==
    LET expr == trim(e)
        iso == parse_from_str(expr, "-", <<1, 2, 3>>)
        us == parse_from_str(expr, "/", <<3, 1, 2>>)
        plus == find(expr, <<"+">>)
    IN IF expr = << >> THEN DateOk(ExprNone)
       ELSE IF to_lowercase(expr) = <<"t", "o", "d", "a", "y">> THEN DateOk(ExprToday)
       ELSE IF iso # None THEN DateOk(ExprExplicit(iso[1]))
       ELSE IF us # None THEN DateOk(ExprExplicit(us[1]))
       ELSE IF plus # -1
       THEN LET day == parse_weekday(trim(Slice(expr, 0, plus)))
                offset == parse_u32(trim(SliceFrom(expr, plus + 1)))
            IN IF day = None THEN ErrInvalidDateExpression
               ELSE IF offset = None THEN ErrInvalidDateExpression
               ELSE DateOk(ExprDayOfWeek(day[1], offset[1]))
       ELSE IF parse_weekday(expr) # None
       THEN DateOk(ExprDayOfWeek(parse_weekday(expr)[1], 0))
       ELSE ErrInvalidDateExpression

\* Result::ok
ok(r) == IF r.k = "Ok" THEN Some(r.v) ELSE None

\* NaiveDate + Duration::days(n)
RECURSIVE PlusDays(_, _)
PlusDays(date, n) ==
    IF date.day + n <= DaysIn(date.year, date.month)
    THEN [date EXCEPT !.day = @ + n]
    ELSE PlusDays([year |-> IF date.month = 12 THEN date.year + 1 ELSE date.year,
                   month |-> IF date.month = 12 THEN 1 ELSE date.month + 1,
                   day |-> 1],
                  n - (DaysIn(date.year, date.month) - date.day) - 1)

\* find_next_weekday; now is Local::now(): its date and its weekday
find_next_weekday(now, target_day, offset) ==
    LET days_until ==
            IF now.weekday = target_day THEN 0
            ELSE IF target_day > now.weekday THEN target_day - now.weekday
            ELSE 7 - (now.weekday - target_day)
    IN PlusDays(now.date, days_until + offset * 7)

\* resolve_date
resolve_date(now, e) ==
    CASE e.expr = "None" -> None
      [] e.expr = "Today" -> Some(now.date)
      [] e.expr = "Explicit" -> Some(e.date)
      [] e.expr = "DayOfWeek" -> Some(find_next_weekday(now, e.day, e.offset))

----------------------------------------------------------------------------
(* The headers command, src/bin/pdf-handouts.rs: cmd_headers builds the
   options from its arguments and calls add_headers_footers once *)

\* date.as_deref().and_then(|d| parse_date_expression(d).ok())
\*                 .and_then(|expr| resolve_date(&expr))
resolved_date(now, date) ==
    IF date = None THEN None
    ELSE LET parsed_expr == ok(parse_date_expression(date[1]))
         IN IF parsed_expr = None THEN None ELSE resolve_date(now, parsed_expr[1])

\* the values of --date the command is run with
DateArgs ==
    {None} \cup
    {Some(d) : d \in {<< >>, <<"t", "o", "d", "a", "y">>, <<" ", "T", "o", "d", "a", "y", " ">>, <<"2", "0", "2", "6", "-", "0", "1", "-", "1", "4">>, <<"1", "/", "1", "4", "/", "2", "0", "2", "6">>, <<"2", "0", "2", "6", "-", "1", "3", "-", "4", "5">>,
                      <<"t", "u", "e", "s", "d", "a", "y">>, <<"T", "u", "e", "+", "1">>, <<"T", "u", "e", "s", "d", "a", "y", "+", "x">>, <<"x", "+", "1">>, <<"n", "e", "x", "t", " ", "t", "u", "e", "s", "d", "a", "y">>}}

\* the days the command is run on: a Wednesday and the last day of a year
Nows ==
    {[date |-> [year |-> 2026, month |-> 1, day |-> 14], weekday |-> 2],
     [date |-> [year |-> 2026, month |-> 12, day |-> 31], weekday |-> 3]}

DateField == <<"[", "d", "a", "t", "e", "]">>

HeadersArgs ==
    {[cmd |-> "headers", input_exists |-> ex, title |-> t, footer_right |-> Some(DateField),
      date |-> d, now |-> now] :
        ex \in BOOLEAN, t \in {None, Some(<<"T">>)}, d \in DateArgs, now \in Nows}

HeadersInit ==
    /\ MergeIdle
    /\ FnIdle
    /\ OverlayIdle
    /\ argv = << >>
    /\ hargs \in HeadersArgs
    /\ cmd_result = NoResult
    /\ temp_merged = None
    /\ builds = << >>
    /\ \E shape \in Shapes :
          sfile = StampDoc("direct", shape, IF shape = "absent" THEN << >> ELSE <<"q", "cm", "Q">>)
    /\ orig0 = sfile
    /\ sdoc = NewDocument
    /\ orig = NewDocument
    /\ spc = "cmd"
    /\ spage = 0
    /\ pages = << >>
    /\ page_count = 0
    /\ font_id = <<0, 0>>
    /\ xobject_id = <<0, 0>>
    /\ xobject_of = << >>
    /\ options = DefaultOptions
    /\ passes = 0

\* cmd_headers up to the call of add_headers_footers: the test of the input
\* path, the date and the options
CmdHeaders ==
    /\ spc = "cmd"
    /\ IF ~hargs.input_exists
       THEN /\ cmd_result' = CliErr(InputFileNotFoundMsg)
            /\ spc' = "exited"
            /\ options' = options
       ELSE /\ options' = [DefaultOptions EXCEPT
                              !.title = hargs.title,
                              !.footer_right = hargs.footer_right,
                              !.date = resolved_date(hargs.now, hargs.date),
                              !.show_page_numbers = FALSE,
                              !.show_total_page_count = FALSE]
            /\ spc' = "idle"
            /\ cmd_result' = cmd_result
    /\ UNCHANGED <<sfile, sdoc, orig, orig0, spage, pages, page_count, font_id,
                   xobject_id, xobject_of, passes>>
    /\ UNCHANGED <<mvars, fvars, ovars, argv, hargs, temp_merged, builds>>

\* add_headers_footers(&input, &output, &options)?, called once
CallAddHeadersFooters ==
    /\ hargs # NoArgs
    /\ passes = 0
    /\ BeginPass

\* Ok(()) after add_headers_footers has returned
CmdHeadersReturn ==
    /\ hargs # NoArgs
    /\ spc = "idle"
    /\ passes = 1
    /\ cmd_result' = Ok
    /\ spc' = "exited"
    /\ UNCHANGED <<sfile, sdoc, orig, orig0, spage, pages, page_count, font_id,
                   xobject_id, xobject_of, options, passes>>
    /\ UNCHANGED <<mvars, fvars, ovars, argv, hargs, temp_merged, builds>>

HeadersNext ==
    \/ CmdHeaders
    \/ CallAddHeadersFooters
    \/ CreateXObject
    \/ AddResources
    \/ WrapContent
    \/ SavePass
    \/ CmdHeadersReturn

SpecHeaders == HeadersInit /\ [][HeadersNext]_vars

----------------------------------------------------------------------------
(* The build command, run twice at the same time. Each run merges its inputs
   into the temporary file, stamps the temporary file into its own output and
   removes the temporary file. A file is given by its pages and the title
   stamped on them. *)

Builders == {1, 2}

\* the pages of the input files
BuildFiles ==
    [p \in {"a.pdf", "b.pdf", "c.pdf", "d.pdf"} |->
        IF p \in {"b.pdf", "c.pdf"} THEN <<<<p, 1>>, <<p, 2>>>> ELSE <<<<p, 1>>>>]

\* the argument lists of the two runs: different inputs, different outputs
BuildArgs(i) ==
    IF i = 1
    THEN {[inputs |-> ins, output |-> "out1.pdf", title |-> t] :
            ins \in {<<"a.pdf">>, <<"a.pdf", "b.pdf">>}, t \in {None, Some("T1")}}
    ELSE {[inputs |-> ins, output |-> "out2.pdf", title |-> t] :
            ins \in {<<"c.pdf">>, <<"c.pdf", "d.pdf">>}, t \in {None, Some("T2")}}

\* what merge_pdfs writes for a list of inputs, and what add_headers_footers
\* writes for a file and a title
MergedFile(inputs) ==
    [pages |-> Concat([j \in 1..Len(inputs) |-> BuildFiles[inputs[j]]]), title |-> None,
     stamped |-> FALSE]

StampedFile(file, title) == [file EXCEPT !.title = title, !.stamped = TRUE]

BuildInit ==
    /\ MergeIdle
    /\ StampIdle
    /\ FnIdle
    /\ OverlayIdle
    /\ argv = << >>
    /\ hargs = NoArgs
    /\ cmd_result = NoResult
    /\ temp_merged = None
    /\ \E a1 \in BuildArgs(1), a2 \in BuildArgs(2) :
          builds = [i \in Builders |->
                      [args |-> IF i = 1 THEN a1 ELSE a2, bpc |-> "merge",
                       out |-> None, result |-> NoResult]]

\* expand_globs, the validation loop and merge_pdfs into the temporary file
BuildMerge(i) ==
    /\ builds[i].bpc = "merge"
    /\ IF \E j \in 1..Len(builds[i].args.inputs) :
             builds[i].args.inputs[j] \notin DOMAIN BuildFiles
       THEN /\ builds' = [builds EXCEPT ![i].bpc = "exited",
                                        ![i].result = CliErr(InputFileNotFoundMsg)]
            /\ temp_merged' = temp_merged
       ELSE /\ temp_merged' = Some(MergedFile(builds[i].args.inputs))
            /\ builds' = [builds EXCEPT ![i].bpc = "stamp"]
    /\ UNCHANGED <<argv, hargs, cmd_result>>
    /\ UNCHANGED <<mvars, svars, fvars, ovars>>

\* the options and add_headers_footers(&temp_merged, &output, &options)?
BuildStamp(i) ==
    /\ builds[i].bpc = "stamp"
    /\ IF temp_merged = None
       THEN builds' = [builds EXCEPT ![i].bpc = "exited", ![i].result = ErrPdf]
       ELSE builds' = [builds EXCEPT
                          ![i].bpc = "cleanup",
                          ![i].out = Some(StampedFile(temp_merged[1], builds[i].args.title))]
    /\ UNCHANGED <<argv, hargs, cmd_result, temp_merged>>
    /\ UNCHANGED <<mvars, svars, fvars, ovars>>

\* let _ = std::fs::remove_file(&temp_merged); Ok(())
BuildCleanup(i) ==
    /\ builds[i].bpc = "cleanup"
    /\ temp_merged' = None
    /\ builds' = [builds EXCEPT ![i].bpc = "exited", ![i].result = Ok]
    /\ UNCHANGED <<argv, hargs, cmd_result>>
    /\ UNCHANGED <<mvars, svars, fvars, ovars>>

BuildNext ==
    \/ \E i \in Builders : BuildMerge(i)
    \/ \E i \in Builders : BuildStamp(i)
    \/ \E i \in Builders : BuildCleanup(i)

SpecBuild == BuildInit /\ [][BuildNext]_vars

----------------------------------------------------------------------------
(* The functions of the text layer, called on their own: the arguments are
   drawn from bounded sets and each action makes one call *)

\* the texts expand_placeholders is called on are built from these pieces
PageKeywords == {<<"[", "p", "a", "g", "e", "]">>, <<"[", "P", "A", "G", "E", "]">>, <<"[", "P", "a", "g", "e", "]">>}
PagesKeywords == {<<"[", "p", "a", "g", "e", "s", "]">>, <<"[", "P", "A", "G", "E", "S", "]">>, <<"[", "P", "a", "g", "e", "s", "]">>}
DateKeywords == {<<"[", "d", "a", "t", "e", "]">>, <<"[", "D", "A", "T", "E", "]">>, <<"[", "D", "a", "t", "e", "]">>}
PlainPieces == {<<"x">>, <<" ">>}
BrokenPieces == {<<"[", "p", "a">>, <<"g", "e", "]">>}
ExpandPieces == PageKeywords \cup PagesKeywords \cup DateKeywords \cup PlainPieces \cup BrokenPieces

MaxPieces == 2

\* "Page [page] of [pages]"
ExamplePieces == <<<<"P", "a", "g", "e", " ">>, <<"[", "p", "a", "g", "e", "]">>, <<" ", "o", "f", " ">>, <<"[", "p", "a", "g", "e", "s", "]">>>>

SomeDate == [year |-> 2026, month |-> 1, day |-> 14]

ExpandCalls ==
    {[fn |-> "expand_placeholders", pieces |-> ps, text |-> Concat(ps),
      page_num |-> n[1], total_pages |-> n[2], date |-> d] :
        ps \in UNION {[1..k -> ExpandPieces] : k \in 0..MaxPieces} \cup {ExamplePieces},
        n \in {<<1, 1>>, <<3, 14>>},
        d \in {None, Some(SomeDate)}}

\* the fields parse_multiline_text is called on are built from these pieces
ExactDelimiters ==
    {<<"\n">>,
     <<"|">>,
     <<"[", "b", "r", "]">>,
     <<"[", "B", "R", "]">>,
     <<"<", "b", "r", ">">>,
     <<"<", "B", "R", ">">>,
     <<"<", "b", "r", "/", ">">>,
     <<"<", "B", "R", "/", ">">>,
     <<"<", "b", "r", " ", "/", ">">>,
     <<"<", "B", "R", " ", "/", ">">>}
MixedCaseDelimiters == {<<"[", "B", "r", "]">>, <<"<", "B", "r", ">">>}
Delimiters == ExactDelimiters \cup MixedCaseDelimiters
FieldPieces == Delimiters \cup {<<"a">>}

MaxFieldPieces == 3

ParseCalls ==
    {[fn |-> "parse_multiline_text", pieces |-> ps, text |-> Concat(ps)] :
        ps \in UNION {[1..k -> FieldPieces] : k \in 0..MaxFieldPieces}}

\* the options generate_header_footer_content is called with: footer fields of
\* one to MaxLines lines, and a right footer with a placeholder
MaxLines == 3

LinesText(n) == Concat([j \in 1..n |-> IF j = 1 THEN <<"a">> ELSE <<"|", "a">>])

FooterFields == {None} \cup {Some(LinesText(n)) : n \in 1..MaxLines}

ComposeOptions ==
    {[DefaultOptions EXCEPT !.title = t, !.footer_left = l, !.footer_center = c,
                            !.footer_right = r, !.date = d,
                            !.show_page_numbers = sh[1], !.show_total_page_count = sh[2]] :
        t \in {None, Some(<<"T">>)},
        l \in FooterFields, c \in FooterFields,
        r \in FooterFields \cup {Some(<<"P", "a", "g", "e", " ", "[", "p", "a", "g", "e", "]">>)},
        d \in {None, Some(SomeDate)},
        sh \in {<<FALSE, FALSE>>, <<TRUE, FALSE>>, <<TRUE, TRUE>>}}

ComposeCalls ==
    {[fn |-> "generate_header_footer_content", page_num |-> n, total_pages |-> 2,
      is_first_page |-> first, options |-> opts] :
        n \in 1..2, first \in BOOLEAN, opts \in ComposeOptions}

\* the markup of a span
FontOpen == <<"[", "f", "o", "n", "t", " ">>
FontClose == <<"[", "/", "f", "o", "n", "t", "]">>

\* footer fields that open a [font ...] span and never close it, on one line
\* and with a line delimiter after the styled text
OpenItalic == <<"[", "f", "o", "n", "t", " ", "i", "t", "a", "l", "i", "c", "]">>
OpenBoldItalic == <<"[", "f", "o", "n", "t", " ", "b", "o", "l", "d", " ", "i", "t", "a", "l", "i", "c", "]">>

UnclosedFields ==
    {OpenItalic \o <<"a">>,
     OpenItalic \o <<"a", "|", "b">>,
     OpenBoldItalic \o <<"a", "[", "b", "r", "]", "b">>}

TaggedCalls ==
    {[fn |-> "generate_header_footer_content", page_num |-> n, total_pages |-> 2,
      is_first_page |-> first, options |-> opts] :
        n \in 1..2, first \in BOOLEAN,
        opts \in {[DefaultOptions EXCEPT !.footer_left = Some(f)] : f \in UnclosedFields}
                 \cup {[DefaultOptions EXCEPT !.footer_right = Some(f)] : f \in UnclosedFields}}

\* the lines parse_font_tags is called on: plain text, whole opening and
\* closing tags, and an opening "[font " that has no "]"
OpenBold == <<"[", "f", "o", "n", "t", " ", "b", "o", "l", "d", "]">>

TagPieces == {<<"a">>, <<"b">>, OpenBold, FontClose, FontOpen}

MaxTagPieces == 3

TagCalls ==
    {[fn |-> "parse_font_tags", pieces |-> ps, text |-> Concat(ps)] :
        ps \in UNION {[1..k -> TagPieces] : k \in 0..MaxTagPieces}}

Calls == ExpandCalls \cup ParseCalls \cup ComposeCalls \cup TaggedCalls \cup TagCalls

TextInit ==
    /\ MergeIdle
    /\ StampIdle
    /\ OverlayIdle
    /\ CliIdle
    /\ call \in Calls
    /\ ret = << >>
    /\ fpc = "ready"

ExpandPlaceholders ==
    /\ fpc = "ready"
    /\ call.fn = "expand_placeholders"
    /\ ret' = expand_placeholders(call.text, call.page_num, call.total_pages, call.date)
    /\ fpc' = "returned"
    /\ UNCHANGED call
    /\ UNCHANGED <<mvars, svars, ovars, cvars>>

ParseMultilineText ==
    /\ fpc = "ready"
    /\ call.fn = "parse_multiline_text"
    /\ ret' = parse_multiline_text(call.text)
    /\ fpc' = "returned"
    /\ UNCHANGED call
    /\ UNCHANGED <<mvars, svars, ovars, cvars>>

GenerateContent ==
    /\ fpc = "ready"
    /\ call.fn = "generate_header_footer_content"
    /\ ret' = generate_header_footer_content(call.page_num, call.total_pages,
                                             call.is_first_page, call.options)
    /\ fpc' = "returned"
    /\ UNCHANGED call
    /\ UNCHANGED <<mvars, svars, ovars, cvars>>

ParseFontTags ==
    /\ fpc = "ready"
    /\ call.fn = "parse_font_tags"
    /\ ret' = parse_font_tags(call.text)
    /\ fpc' = "returned"
    /\ UNCHANGED call
    /\ UNCHANGED <<mvars, svars, ovars, cvars>>

TextNext ==
    \/ ExpandPlaceholders
    \/ ParseMultilineText
    \/ GenerateContent
    \/ ParseFontTags

SpecText == TextInit /\ [][TextNext]_vars


----------------------------------------------------------------------------
(* Transform detection, examples/debug_transform_detection.rs: the scan main
   runs over the first content stream of a page *)

IsWhitespace(c) == c \in {" ", "\n"}

\* str::split_whitespace: the maximal runs of characters that are not
\* whitespace, in order
RECURSIVE SplitWhitespaceFrom(_, _, _)
SplitWhitespaceFrom(s, k, word) ==
    IF k > Len(s) THEN (IF word = << >> THEN << >> ELSE <<word>>)
    ELSE IF IsWhitespace(s[k])
    THEN (IF word = << >> THEN << >> ELSE <<word>>) \o SplitWhitespaceFrom(s, k + 1, << >>)
    ELSE SplitWhitespaceFrom(s, k + 1, Append(word, s[k]))

split_whitespace(s) == SplitWhitespaceFrom(s, 1, << >>)

SpaceCm == <<" ", "c", "m">>

\* what main prints for one content stream: the six parts before the first
\* " cm", or that there are too few parts, or that no " cm" was found
NoCmFound == [kind |-> "no_cm"]
NotEnoughNumbers(parts) == [kind |-> "not_enough", parts |-> parts]
FirstCm(matrix_parts) == [kind |-> "first_cm", matrix |-> matrix_parts]

\* the body of `if let Some(cm_pos) = content_str.find(" cm")` and its else
scan_first_cm(content_str) ==
    LET cm_pos == find(content_str, SpaceCm) IN
    IF cm_pos = -1 THEN NoCmFound
    ELSE LET before_cm == Slice(content_str, 0, cm_pos)
             parts == split_whitespace(before_cm)
         IN IF Len(parts) >= 6
            THEN LET start == Len(parts) - 6
                 IN FirstCm(SubSeq(parts, start + 1, Len(parts)))
            ELSE NotEnoughNumbers(parts)

\* the content streams main is run on: operators and operands joined by one
\* kind of whitespace, and possibly a second stream with a cm of its own
OpSave == <<"q">>
OpRestore == <<"Q">>
OpConcat == <<"c", "m">>
HalfScale == <<"0", ".", "5", " ", "0", " ", "0", " ", "0", ".", "5", " ", "0", " ", "0">>
TwoNumbers == <<"0", " ", "0">>
IdentityMatrix == <<"1", " ", "0", " ", "0", " ", "1", " ", "0", " ", "0">>

ContentPieces == {OpSave, OpRestore, OpConcat, HalfScale, TwoNumbers}

MaxOperators == 3

RECURSIVE Joined(_, _)
Joined(ps, sep) ==
    IF ps = << >> THEN << >>
    ELSE IF Len(ps) = 1 THEN Head(ps)
    ELSE Head(ps) \o <<sep>> \o Joined(Tail(ps), sep)

ContentStreams ==
    {Joined(ps, sep) : ps \in UNION {[1..k -> ContentPieces] : k \in 0..MaxOperators},
                       sep \in {" ", "\n"}}

SecondStream == Joined(<<IdentityMatrix, OpConcat>>, " ")

DetectCalls ==
    {[fn |-> "debug_transform_detection", content_streams |-> cs] :
        cs \in {<< >>} \cup {<<c>> : c \in ContentStreams}
                      \cup {<<c, SecondStream>> : c \in ContentStreams}}

DetectInit ==
    /\ MergeIdle
    /\ StampIdle
    /\ OverlayIdle
    /\ CliIdle
    /\ call \in DetectCalls
    /\ ret = << >>
    /\ fpc = "ready"

\* one turn of main's loop over the pages: the first content stream of the
\* page is scanned; a page without a content stream prints nothing
DebugTransformDetection ==
    /\ fpc = "ready"
    /\ call.fn = "debug_transform_detection"
    /\ ret' = IF call.content_streams = << >> THEN None
              ELSE Some(scan_first_cm(Head(call.content_streams)))
    /\ fpc' = "returned"
    /\ UNCHANGED call
    /\ UNCHANGED <<mvars, svars, ovars, cvars>>

DetectNext == DebugTransformDetection

SpecDetect == DetectInit /\ [][DetectNext]_vars

----------------------------------------------------------------------------
(* What the claims about merge_pdfs speak of *)

NPaths == Len(input_paths)

\* every input exists and parses (in the file system merge_pdfs was called on)
AllParse == \A j \in 1..NPaths : fs0[input_paths[j]].k = "pdf"

SourceDoc(j) == fs0[input_paths[j]].doc

\* an input's page count: the number of leaf pages in its page tree, which
\* in these inputs is also the Count count_pages reads from its catalog
InputPageCount(j) == Len(get_pages(SourceDoc(j)))

ValidInputs ==
    /\ NPaths > 0
    /\ AllParse
    /\ \A j \in 1..NPaths : InputPageCount(j) >= 1

TotalPages == SumSeq([j \in 1..NPaths |-> InputPageCount(j)])

TreeBuilt == pc \in {"parents", "save", "done"}

NewRoot == merged_doc.objects[pages_id].v

\* C1: for a non-empty list of existing, parseable inputs with at least one
\* page each, merge_pdfs does not fail, returns Ok, and the Count of the new
\* Pages root, also as count_pages reads it back from the output file, is the
\* sum of the inputs' page counts.
C1_PageCountIsSum ==
    ValidInputs =>
        /\ pc # "failed"
        /\ (pc = "done" => result = Ok)
        /\ (TreeBuilt => NewRoot["Count"] = Integer(TotalPages))
        /\ (read_back # NoResult => read_back = OkCount(TotalPages))
        /\ \A j \in 1..NPaths : count_pages(fs0, input_paths[j]) = OkCount(InputPageCount(j))

C1_Witness ==
    /\ input_paths = <<"b.pdf", "b.pdf">>
    /\ TotalPages = 4
    /\ read_back = OkCount(4)

\* the number renumbering starts at for the j-th source
RECURSIVE StartOf(_)
StartOf(j) == IF j = 1 THEN 1 ELSE StartOf(j - 1) + Cardinality(DOMAIN SourceDoc(j - 1).objects)

\* the pages of all inputs in input order, each in its own page order, as
\* <<source index, id in the source>>
SourcePages ==
    Concat([j \in 1..NPaths |->
              LET ps == get_pages(SourceDoc(j)) IN [k \in 1..Len(ps) |-> <<j, ps[k]>>]])

WithoutParent(d) == [k \in DOMAIN d \ {"Parent"} |-> d[k]]

\* C2: the k-th entry of the new root's Kids refers to the renumbered object
\* of the k-th page of the concatenation of the inputs' pages, and that object
\* is the source page (references renumbered, Parent aside); nothing is
\* reordered or dropped.
C2_KidsInInputOrder ==
    (AllParse /\ TreeBuilt) =>
        LET kids == NewRoot["Kids"].v IN
        /\ Len(kids) = Len(SourcePages)
        /\ \A k \in 1..Len(kids) :
              LET j == SourcePages[k][1]
                  pid == SourcePages[k][2]
                  map == RenumberMap(SourceDoc(j), StartOf(j))
              IN /\ kids[k] = Ref(map[pid])
                 /\ WithoutParent(merged_doc.objects[map[pid]].v)
                      = WithoutParent(Renumbered(SourceDoc(j).objects[pid], map).v)

C2_Witness ==
    /\ input_paths = <<"b.pdf", "a.pdf">>
    /\ pc = "done"
    /\ NewRoot["Kids"].v = <<Ref(<<5, 0>>), Ref(<<2, 0>>), Ref(<<11, 0>>)>>

RangeMax(r) == MaxNumber(r)
RangeMin(r) == -MaxNumber({<<-i[1], i[2]>> : i \in r})

\* C3: once the Pages root and the Catalog exist, the sources' identifier
\* ranges are pairwise disjoint, each starting above the previous one's
\* highest identifier; the two new identifiers differ and belong to no source
\* range; no object was overwritten (the store holds every source object plus
\* the two new ones); and the counter is at least every identifier present.
C3_IdentifiersUnique ==
    TreeBuilt =>
        /\ \A i, j \in 1..Len(ranges) : i < j => ranges[i] \cap ranges[j] = {}
        /\ \A j \in 2..Len(ranges) : RangeMin(ranges[j]) > RangeMax(ranges[j - 1])
        /\ pages_id # catalog_id
        /\ \A j \in 1..Len(ranges) : pages_id \notin ranges[j] /\ catalog_id \notin ranges[j]
        /\ Cardinality(DOMAIN merged_doc.objects)
             = SumSeq([j \in 1..Len(documents) |-> Cardinality(DOMAIN documents[j].objects)]) + 2
        /\ \A id \in DOMAIN merged_doc.objects : id[1] <= merged_doc.max_id

C3_Witness ==
    /\ pc = "done"
    /\ Len(ranges) = 2
    /\ pages_id = <<14, 0>>
    /\ catalog_id = <<15, 0>>

\* C4: with an empty input_paths, merge_pdfs returns an error whose message
\* contains "No input files" and the output file is not written.
C4_EmptyListRejected ==
    (input_paths = << >> /\ pc # "start") =>
        /\ pc = "failed"
        /\ result.k = "Err"
        /\ Contains(Display(result), <<"No", "input", "files">>)
        /\ fs = fs0

C4_Witness ==
    /\ input_paths = << >>
    /\ pc = "failed"
    /\ result = ErrGeneral(NoInputFilesMsg)

Missing == {j \in 1..NPaths : fs0[input_paths[j]].k = "absent"}
FirstMissing == CHOOSE j \in Missing : \A i \in Missing : j <= i

\* C5: when some path does not exist, merge_pdfs fails with FileNotFound
\* naming the first missing path in list order, and no input is parsed before
\* every path has been checked: Document::load is never called in such a run.
C5_MissingPathFirst ==
    /\ (Missing # {} => /\ parsed = {}
                        /\ pc \in {"start", "validate", "failed"}
                        /\ (pc = "failed" => result = ErrFileNotFound(input_paths[FirstMissing])))
    /\ (parsed # {} => Missing = {})

C5_Witness ==
    /\ input_paths = <<"bad.pdf", "nonexistent.pdf">>
    /\ pc = "failed"
    /\ result = ErrFileNotFound("nonexistent.pdf")

ZeroPage == {j \in 1..NPaths : fs0[input_paths[j]].k = "pdf" /\ get_pages(SourceDoc(j)) = << >>}
FirstZeroPage == CHOOSE j \in ZeroPage : \A i \in ZeroPage : j <= i

\* C6: when every path exists and parses and some document has zero pages,
\* merge_pdfs fails with EmptyPdf naming that document's path (the first such
\* in list order); the document is never skipped, and nothing is absorbed or
\* written.
C6_ZeroPageRejected ==
    (AllParse /\ ZeroPage # {}) =>
        /\ pc \in {"start", "validate", "load", "failed"}
        /\ (pc = "failed" => result = ErrEmptyPdf(input_paths[FirstZeroPage]))
        /\ fs = fs0

C6_Witness ==
    /\ input_paths = <<"a.pdf", "zero.pdf">>
    /\ pc = "failed"
    /\ result = ErrEmptyPdf("zero.pdf")

\* C7: the output path is written once, by the save at the end: on every
\* failing run (and at every point before the save) the file system is as it
\* was when merge_pdfs was called, and a failing run returns an error.
C7_NoPartialOutput ==
    /\ (pc # "done" => fs = fs0)
    /\ (pc = "failed" => result.k = "Err")
    /\ (fs # fs0 => result = Ok)

C7_Witness ==
    /\ input_paths = <<"b.pdf", "bad.pdf">>
    /\ pc = "failed"
    /\ result = ErrPdf
    /\ Len(documents) = 1
    /\ fs = fs0

----------------------------------------------------------------------------
(* What the claims about add_headers_footers speak of *)

InPass == spc \in {"xobject", "resources", "wrap", "save"}

\* every page has been stamped by the pass that ran last
StampedAll == spc = "save" \/ (spc = "idle" /\ passes > 0)

OrigPage(j) == orig.objects[pages[j]].v
NowPage(j) == sdoc.objects[pages[j]].v

\* before the pass, both pages had no Resources of their own and a common
\* parent that has one
InheritedFromAncestor ==
    /\ Len(pages) = 2
    /\ ~Has(OrigPage(1), "Resources") /\ ~Has(OrigPage(2), "Resources")
    /\ OrigPage(1)["Parent"] = OrigPage(2)["Parent"]
    /\ Has(orig.objects[OrigPage(1)["Parent"].id].v, "Resources")

\* before the pass, both pages referenced the same indirect Resources object
SharedIndirect ==
    /\ Len(pages) = 2
    /\ Has(OrigPage(1), "Resources") /\ Has(OrigPage(2), "Resources")
    /\ IsRef(OrigPage(1)["Resources"])
    /\ OrigPage(1)["Resources"] = OrigPage(2)["Resources"]

HeaderFooterOf(j) == NowPage(j)["Resources"].v["XObject"].v["HeaderFooter"]

\* C8: after two sibling pages that took the same Resources dictionary from a
\* common ancestor, or referenced the same indirect Resources object, have
\* been stamped, each page holds a direct Resources dictionary of its own,
\* the pages' HeaderFooter entries refer to two different overlay objects
\* (each the one made for that page), and the ancestor and the shared
\* dictionary object are as they were.
C8_ResourcesNotSharedMutated ==
    (StampedAll /\ (InheritedFromAncestor \/ SharedIndirect)) =>
        /\ \A j \in 1..2 :
              /\ Has(NowPage(j), "Resources") /\ IsDict(NowPage(j)["Resources"])
              /\ Has(NowPage(j)["Resources"].v, "XObject")
              /\ IsDict(NowPage(j)["Resources"].v["XObject"])
              /\ HeaderFooterOf(j) = Ref(xobject_of[j])
              /\ xobject_of[j] \notin DOMAIN orig.objects
              /\ sdoc.objects[xobject_of[j]].dict["Subtype"] = Name("Form")
        /\ xobject_of[1] # xobject_of[2]
        /\ NowPage(1)["Resources"] # NowPage(2)["Resources"]
        /\ sdoc.objects[OrigPage(1)["Parent"].id] = orig.objects[OrigPage(1)["Parent"].id]
        /\ SharedIndirect =>
              sdoc.objects[OrigPage(1)["Resources"].id] = orig.objects[OrigPage(1)["Resources"].id]

C8_Witness ==
    /\ StampedAll
    /\ InheritedFromAncestor
    /\ HeaderFooterOf(1) = Ref(<<14, 0>>)
    /\ HeaderFooterOf(2) = Ref(<<17, 0>>)

\* the pages wrap_content_and_append_xobject has run on in this pass
WrappedPages == {j \in 1..Len(pages) : j < spage \/ spc = "save"}

IsNewStream(doc, o, c) ==
    /\ IsRef(o)
    /\ o.id \notin DOMAIN orig.objects
    /\ o.id \in DOMAIN doc.objects
    /\ IsStream(doc.objects[o.id])
    /\ doc.objects[o.id].content = c

\* C9: after wrap_content_and_append_xobject the page's Contents is an array:
\* a new save stream, every original content entry in its original order, a
\* new restore-and-overlay stream; no stream object the pass loaded is
\* changed or removed, and what each decodes to is the same in the saved file.
C9_OriginalContentKept ==
    /\ InPass =>
          /\ \A j \in WrappedPages :
                LET old == ContentEntries(OrigPage(j))
                    new == NowPage(j)["Contents"]
                IN /\ IsArr(new)
                   /\ Len(new.v) = Len(old) + 2
                   /\ IsNewStream(sdoc, new.v[1], <<"q">>)
                   /\ SubSeq(new.v, 2, Len(new.v) - 1) = old
                   /\ IsNewStream(sdoc, new.v[Len(new.v)],
                                  <<"Q", "q", "q", "cm", "Do", "Q", "Q">>)
          /\ \A id \in DOMAIN orig.objects :
                IsStream(orig.objects[id]) =>
                    id \in DOMAIN sdoc.objects /\ sdoc.objects[id] = orig.objects[id]
    /\ \A id \in DOMAIN orig0.objects :
          IsStream(orig0.objects[id]) =>
              /\ id \in DOMAIN sfile.objects
              /\ IsStream(sfile.objects[id])
              /\ sfile.objects[id].content = orig0.objects[id].content
              /\ sfile.objects[id].dict = orig0.objects[id].dict

C9_Witness ==
    /\ spc = "save"
    /\ passes = 0
    /\ ContentEntries(OrigPage(1)) = <<Ref(<<5, 0>>), Ref(<<6, 0>>)>>
    /\ NowPage(1)["Contents"] =
          Arr(<<Ref(<<15, 0>>), Ref(<<5, 0>>), Ref(<<6, 0>>), Ref(<<16, 0>>)>>)

FirstPages == get_pages(orig0)

\* C10: if a page's original content is balanced in q/Q (every q matched by a
\* later Q, depth never negative), the logical concatenation of its Contents
\* is balanced at every point of every stamping pass and in every saved file.
C10_SaveRestoreBalanced ==
    \A j \in 1..Len(FirstPages) :
        Balanced(LogicalContent(orig0, FirstPages[j])) =>
            /\ Balanced(LogicalContent(sfile, FirstPages[j]))
            /\ InPass => Balanced(LogicalContent(sdoc, FirstPages[j]))

C10_Witness ==
    /\ passes = 2
    /\ LogicalContent(orig0, <<3, 0>>) = <<"q", "cm", "Q">>
    /\ LogicalContent(sfile, <<3, 0>>) =
          <<"q", "q">> \o <<"q", "cm", "Q">>
          \o <<"Q", "q", "q", "cm", "Do", "Q", "Q">> \o <<"Q", "q", "q", "cm", "Do", "Q", "Q">>

----------------------------------------------------------------------------
(* What the claims about the text layer speak of *)

Returned(fn) == fpc = "returned" /\ call.fn = fn

\* what a piece of the input is to become: a keyword, in any case, its value
Replacement(piece) ==
    CASE piece \in PageKeywords -> to_string(call.page_num)
      [] piece \in PagesKeywords -> to_string(call.total_pages)
      [] piece \in DateKeywords -> IF call.date # None THEN format_date(call.date[1]) ELSE << >>
      [] OTHER -> piece

WholePieces ==
    \A j \in 1..Len(call.pieces) : call.pieces[j] \notin BrokenPieces

\* C11: expand_placeholders replaces every occurrence of [page], [pages] and
\* [date], in lower, upper or mixed case, by the page number, the total and the
\* formatted date (nothing when there is no date)
C11_EveryKeywordReplaced ==
    (Returned("expand_placeholders") /\ WholePieces)
        => ret = Concat([j \in 1..Len(call.pieces) |-> Replacement(call.pieces[j])])

\* an opening bracket inside an open bracket
Nested(s) ==
    \E i, j \in 1..Len(s) :
        /\ i < j
        /\ s[i] = "["
        /\ s[j] = "["
        /\ \A k \in i..j : s[k] # "]"

HasKeyword(s) ==
    \E kw \in PageKeywords \cup PagesKeywords \cup DateKeywords : ContainsStr(s, kw)

\* C12: on a text without nested brackets the result holds no [page], [pages]
\* or [date] keyword, expanding the result again changes nothing, and
\* "Page [page] of [pages]" on page 3 of 14 gives "Page 3 of 14"
C12_NoKeywordLeftAndIdempotent ==
    (Returned("expand_placeholders") /\ ~Nested(call.text))
        => /\ ~HasKeyword(ret)
           /\ expand_placeholders(ret, call.page_num, call.total_pages, call.date) = ret
           /\ (call.pieces = ExamplePieces /\ call.page_num = 3 /\ call.total_pages = 14)
                 => ret = <<"P", "a", "g", "e", " ", "3", " ", "o", "f", " ", "1", "4">>

\* the field with every delimiter written as '|'
SingleKind(pieces) ==
    [j \in 1..Len(pieces) |-> IF pieces[j] \in Delimiters THEN <<"|">> ELSE pieces[j]]

NumDelimiters(pieces) == Cardinality({j \in 1..Len(pieces) : pieces[j] \in Delimiters})

\* C13: every delimiter, in any case, splits the field and is consumed; a
\* field that mixes delimiter kinds gives the lines of the same field written
\* with '|' only, one more line than delimiters
C13_DelimitersEquivalent ==
    Returned("parse_multiline_text")
        => /\ ret = parse_multiline_text(Concat(SingleKind(call.pieces)))
           /\ Len(ret) = NumDelimiters(call.pieces) + 1

----------------------------------------------------------------------------
(* What the claims about the composed content speak of *)

TitleY == F32Sub(page_height, F32_50)

\* the content positions a text at the title's height
TitleDrawn(content) ==
    \E k \in 1..Len(content) : content[k].op = "Tm" /\ content[k].y = TitleY

\* the content of the overlay this pass made for page j
OverlayContent(j) == sdoc.objects[xobject_of[j]].content

\* C14: across the pages of a stamped document the title is drawn on the
\* first page in page order, when a title is configured, and on no other page
C14_TitleOnFirstPageOnly ==
    \A j \in 1..Len(xobject_of) :
        TitleDrawn(OverlayContent(j)) <=> (j = 1 /\ options.title # None)

C14_Witness ==
    /\ Len(xobject_of) = 2
    /\ options.title # None
    /\ TitleDrawn(OverlayContent(1))
    /\ ~TitleDrawn(OverlayContent(2))

IsFooterTj(o) == o.op = "Tj"
IsFooterTm(o) == o.op = "Tm" /\ o.y # TitleY

\* the operators after the footer colour: those of the three footers
FooterPart(content) ==
    LET k == CHOOSE h \in 1..Len(content) :
                 /\ content[h].op = "RG"
                 /\ \A g \in (h + 1)..Len(content) : content[g].op # "RG"
    IN SubSeq(content, k + 1, Len(content))

\* the lines the footer fields of the call give
ConfiguredLines(field) ==
    IF field = None THEN << >>
    ELSE ZoneLines(field[1], call.page_num, call.total_pages, call.options)

NumConfigured ==
    Len(ConfiguredLines(call.options.footer_left))
    + Len(ConfiguredLines(call.options.footer_center))
    + Len(ConfiguredLines(call.options.footer_right))

\* C15: with show_page_numbers the footer of the page holds one more line, a
\* line with the page's number, and a supplied date adds a further line
C15_PageNumberAndDateLines ==
    Returned("generate_header_footer_content")
        => LET texts == SelectSeq(FooterPart(ret), IsFooterTj) IN
           /\ Len(texts) = NumConfigured
                           + (IF call.options.show_page_numbers THEN 1 ELSE 0)
                           + (IF call.options.date # None THEN 1 ELSE 0)
           /\ call.options.show_page_numbers
                 => \E k \in 1..Len(texts) : ContainsStr(texts[k].text, to_string(call.page_num))
           /\ call.options.date # None
                 => \E k \in 1..Len(texts) :
                        ContainsStr(texts[k].text, format_date(call.options.date[1]))

\* the baselines of the footer lines, zone by zone (every line of the calls
\* is one unstyled segment, so each line is one Tm)
ZoneCount(zone) ==
    Len(ConfiguredLines(CASE zone = "left" -> call.options.footer_left
                          [] zone = "center" -> call.options.footer_center
                          [] zone = "right" -> call.options.footer_right))

ZoneOffset(zone) ==
    CASE zone = "left" -> 0
      [] zone = "center" -> ZoneCount("left")
      [] zone = "right" -> ZoneCount("left") + ZoneCount("center")

ZoneY(zone, i) == SelectSeq(ret, IsFooterTm)[ZoneOffset(zone) + i + 1].y

Zones == {"left", "center", "right"}

CallLineHeight == F32Mul(effective_footer_font_size(call.options), F32_1_2)

\* C20 as stated: line i of a zone of n lines is at 30 + (n-1-i) line
\* heights, so the last line is at 30 for every n
C20_BaselineFormulaExact ==
    Returned("generate_header_footer_content")
        => \A zone \in Zones : \A i \in 0..(ZoneCount(zone) - 1) :
              /\ ZoneY(zone, i) = F32Add(F32_30, F32Mul(F32FromInt(ZoneCount(zone) - 1 - i),
                                                        CallLineHeight))
              /\ i = ZoneCount(zone) - 1 => ZoneY(zone, i) = F32_30

\* a * 2^20, for the values of the layout (whose e is at least -20)
Exact20(a) == a.m * 2^(a.e + 20)

\* one unit in the last place of a, times 2^20
Ulp20(a) == 2^(a.e + 20)

\* C20, amended: line i is at 30 + (n-1-i) line heights up to the rounding of
\* the f32 operations (two units in the last place of the zone's top
\* baseline), the baselines decrease down the zone, and zones with equal line
\* counts have equal baselines whatever the other zones hold
C20_BaselineFormulaRounded ==
    Returned("generate_header_footer_content")
        => \A zone \in Zones : \A i \in 0..(ZoneCount(zone) - 1) :
              LET n == ZoneCount(zone)
                  y == ZoneY(zone, i)
                  top == ZoneY(zone, 0)
                  claimed == Exact20(F32_30) + (n - 1 - i) * Exact20(CallLineHeight)
              IN /\ Abs(Exact20(y) - claimed) <= 2 * Ulp20(top)
                 /\ i > 0 => Exact20(y) < Exact20(ZoneY(zone, i - 1))
                 /\ \A other \in Zones : ZoneCount(other) = n => ZoneY(other, i) = y

C20_Witness ==
    /\ Returned("generate_header_footer_content")
    /\ ZoneCount("left") = 2
    /\ ZoneCount("center") = 3
    /\ ZoneCount("right") = 1
    /\ ZoneY("left", 1) # F32_30
    /\ ZoneY("right", 0) = F32_30

----------------------------------------------------------------------------
(* What the claims about overlay_watermark speak of *)

\* the object o stands for: a reference is followed once
Resolved(doc, o) ==
    IF IsRef(o) /\ o.id \in DOMAIN doc.objects THEN doc.objects[o.id] ELSE o

\* the donor resources of watermark page n as they are after the import: the
\* page's Resources with the new ids, a reference followed
DonorOf(n) ==
    LET got == get_page_content_and_resources(watermark_doc, n, id_map)
    IN Resolved(source_doc, got[1].resources)

\* res holds every category of donor, and every sub-key of a category that
\* is a dictionary, with the donor's value
HoldsDonor(res, donor) ==
    \A key \in DOMAIN donor.v :
        /\ Has(res.v, key)
        /\ IF IsDict(donor.v[key])
           THEN /\ IsDict(res.v[key])
                /\ \A subkey \in DOMAIN donor.v[key].v :
                      /\ Has(res.v[key].v, subkey)
                      /\ res.v[key].v[subkey] = donor.v[key].v[subkey]
           ELSE res.v[key] = donor.v[key]

OverlayPagesDone == opc \in {"save", "done"}

\* C16: once merge_resources has run on every page, each page of the source
\* holds a direct Resources dictionary that contains every category and every
\* sub-key of the donor resources of its watermark page, whether the page had
\* a direct Resources dictionary, a reference to one, or none.
C16_DirectResourcesWithDonor ==
    OverlayPagesDone =>
        \A n \in 1..Len(get_pages(source0)) :
            LET page_dict == source_doc.objects[get_pages(source0)[n]].v
                donor == DonorOf(n)
            IN /\ Has(page_dict, "Resources")
               /\ IsDict(page_dict["Resources"])
               /\ IsDict(donor) => HoldsDonor(page_dict["Resources"], donor)

----------------------------------------------------------------------------
(* What the claim about transform detection speaks of *)

Operators(content_str) == split_whitespace(content_str)

HasCm(content_str) == \E j \in 1..Len(Operators(content_str)) : Operators(content_str)[j] = OpConcat

\* the position of the first cm among the operators and operands
FirstCmAt(content_str) ==
    CHOOSE j \in 1..Len(Operators(content_str)) :
        /\ Operators(content_str)[j] = OpConcat
        /\ \A h \in 1..(j - 1) : Operators(content_str)[h] # OpConcat

PrecededBySave(content_str) ==
    \E h \in 1..(FirstCmAt(content_str) - 1) : Operators(content_str)[h] = OpSave

\* a report that stands for the identity transform: no cm found, or the
\* identity matrix itself
ReportsIdentity(report) ==
    \/ report = NoCmFound
    \/ report = FirstCm(split_whitespace(IdentityMatrix))

\* C17: over a page's content, detection reports identity when there is no cm
\* operator, reports identity when the first cm has six operands and a
\* graphics-state save q stands before it, and reports the six literal
\* operands of the first cm when no save stands before it.
C17_BracketRule ==
    (Returned("debug_transform_detection") /\ call.content_streams # << >>) =>
        LET content_str == Head(call.content_streams)
            report == ret[1]
        IN IF ~HasCm(content_str) THEN ReportsIdentity(report)
           ELSE FirstCmAt(content_str) > 6 =>
                   IF PrecededBySave(content_str) THEN ReportsIdentity(report)
                   ELSE report = FirstCm(SubSeq(Operators(content_str),
                                                FirstCmAt(content_str) - 6,
                                                FirstCmAt(content_str) - 1))

----------------------------------------------------------------------------
(* What the claim about the merge command speaks of *)

\* C18: the merge command hands merge_pdfs the input files in the order they
\* were given on the command line: the list is the arguments, each pattern
\* replaced by its matches, with no reordering.
C18_ArgumentOrderKept ==
    (argv # << >> /\ pc \notin {"cli", "off"} /\ input_paths # << >>)
        => input_paths = Pushed(fs0, argv)

----------------------------------------------------------------------------
(* What the claim about the merged page tree speaks of *)

MergeSucceeded == pc = "done" /\ result = Ok

\* the Parent the k-th page of the output had in its source document
SourceParent(k) == SourceDoc(SourcePages[k][1]).objects[SourcePages[k][2]].v["Parent"]

\* the tree of doc: Root, Catalog, Pages root with its Count and Kids, and
\* the pages under it
TreeIsFlat(doc) ==
    /\ doc.trailer["Root"] = Ref(catalog_id)
    /\ doc.objects[catalog_id].v["Type"] = Name("Catalog")
    /\ doc.objects[catalog_id].v["Pages"] = Ref(pages_id)
    /\ LET root == doc.objects[pages_id].v IN
       /\ root["Type"] = Name("Pages")
       /\ root["Count"] = Integer(Len(root["Kids"].v))
       /\ \A k \in 1..Len(root["Kids"].v) :
             LET kid == root["Kids"].v[k] IN
             /\ IsRef(kid)
             /\ kid.id \in DOMAIN doc.objects
             /\ IsDict(doc.objects[kid.id])
             /\ doc.objects[kid.id].v["Type"] = Name("Page")
             /\ doc.objects[kid.id].v["Parent"] = Ref(pages_id)

\* C19: after a successful merge the trailer's Root refers to the new Catalog,
\* the Catalog's Pages to the new Pages root, the root's Count is the length
\* of its Kids, every entry of Kids is a leaf Page, and every such page's
\* Parent refers to the new root whatever Parent it had in its source; this
\* holds of the document built and of the document in the output file.
C19_MergedTreeIsFlat ==
    MergeSucceeded =>
        /\ TreeIsFlat(merged_doc)
        /\ fs[output_path].k = "pdf"
        /\ TreeIsFlat(fs[output_path].doc)

\* b.pdf, whose first page hangs under an intermediate Pages node, merged
\* with a.pdf: three pages under the new root, none with the Parent it had
C19_Witness ==
    /\ MergeSucceeded
    /\ input_paths = <<"b.pdf", "a.pdf">>
    /\ Len(NewRoot["Kids"].v) = 3
    /\ SourceDoc(1).objects[SourceParent(1).id].v["Type"] = Name("Pages")
    /\ SourceParent(1) # SourceDoc(1).objects[SourceDoc(1).trailer["Root"].id].v["Pages"]
    /\ \A k \in 1..3 : merged_doc.objects[NewRoot["Kids"].v[k].id].v["Parent"] = Ref(pages_id)

----------------------------------------------------------------------------
(* What the claim about unclosed [font] spans speaks of *)


\* the positions of the Tj operators of the footers, in order
FooterTjAt(content) ==
    LET fp == FooterPart(content)
    IN SelectSeq([k \in 1..Len(fp) |-> k], LAMBDA k : fp[k].op = "Tj")

\* the operator op that precedes position k most closely
LastBefore(fp, k, op) ==
    CHOOSE h \in 1..(k - 1) : fp[h].op = op /\ \A g \in (h + 1)..(k - 1) : fp[g].op # op

\* the text runs the footers draw, each with the style it is drawn in:
\* italic is the sheared text matrix, bold the fill-and-stroke render mode
Rendered(content) ==
    LET fp == FooterPart(content)
        at == FooterTjAt(content)
    IN [n \in 1..Len(at) |->
           [text |-> fp[at[n]].text,
            style |-> [italic |-> fp[LastBefore(fp, at[n], "Tm")].shear # F32Zero,
                       bold |-> fp[LastBefore(fp, at[n], "Tr")].mode = 2]]]

\* the footer fields of the call that are set
SetFields ==
    {f \in {call.options.footer_left, call.options.footer_center, call.options.footer_right} :
        f # None}

\* the field opens a span at its start and never closes it
OpensUnclosedSpan(field) ==
    /\ StartsWith(field, FontOpen)
    /\ ContainsStr(field, <<"]">>)
    /\ ~ContainsStr(field, FontClose)

\* the style of the opening tag at the start of the field
SpanStyle(field) == parse_font_style(Slice(field, 6, find(field, <<"]">>)))

\* C21: when the only footer field of the page opens a [font ...] span at its
\* start and never closes it, every text run of the footer, those after a
\* line delimiter included, is drawn in the span's style, and no run holds
\* tag markup.
C21_UnclosedSpanToEndOfField ==
    (Returned("generate_header_footer_content") /\ Cardinality(SetFields) = 1) =>
        \A f \in SetFields :
            OpensUnclosedSpan(f[1]) =>
                \A n \in 1..Len(Rendered(ret)) :
                    /\ Rendered(ret)[n].style = SpanStyle(f[1])
                    /\ ~ContainsStr(Rendered(ret)[n].text, FontOpen)
                    /\ ~ContainsStr(Rendered(ret)[n].text, FontClose)

----------------------------------------------------------------------------
(* What the claim about the sub-key merge speaks of *)

\* the Resources page n of the source had, and the Resources it has now
TargetOf(n) ==
    LET page_dict == source0.objects[get_pages(source0)[n]].v
    IN IF Has(page_dict, "Resources") THEN page_dict["Resources"] ELSE Dict(EmptyDict)

MergedOf(n) == source_doc.objects[get_pages(source0)[n]].v["Resources"]

\* the donor's Resources as get_page_content_and_resources hands them over
DonorGiven(n) == get_page_content_and_resources(watermark_doc, n, id_map)[1].resources

\* the category key of res, a reference to it followed
Category(res, key) == Resolved(source_doc, res.v[key])

\* merged holds the sub-keys of target and donor, the donor's value on equal
\* names
SubKeysMerged(merged, target, donor) ==
    /\ IsDict(merged)
    /\ DOMAIN merged.v = DOMAIN target.v \cup DOMAIN donor.v
    /\ \A subkey \in DOMAIN donor.v : merged.v[subkey] = donor.v[subkey]
    /\ \A subkey \in DOMAIN target.v \ DOMAIN donor.v : merged.v[subkey] = target.v[subkey]

\* C22: on a page whose Resources is a direct dictionary (or absent) and a
\* donor whose Resources is a direct dictionary, a category both define as a
\* dictionary holds afterwards every donor sub-key with the donor's value and
\* every other target sub-key with its original value; a category only the
\* target has is unchanged, and a category only the donor has is copied whole.
C22_SubKeyMerge ==
    OverlayPagesDone =>
        \A n \in 1..Len(get_pages(source0)) :
            (IsDict(TargetOf(n)) /\ IsDict(DonorGiven(n))) =>
                LET target == TargetOf(n)
                    donor == DonorGiven(n)
                    merged == MergedOf(n)
                IN /\ IsDict(merged)
                   /\ DOMAIN merged.v = DOMAIN target.v \cup DOMAIN donor.v
                   /\ \A key \in DOMAIN target.v \ DOMAIN donor.v :
                         merged.v[key] = target.v[key]
                   /\ \A key \in DOMAIN donor.v \ DOMAIN target.v :
                         merged.v[key] = donor.v[key]
                   /\ \A key \in DOMAIN target.v \cap DOMAIN donor.v :
                         (IsDict(Category(target, key)) /\ IsDict(Category(donor, key)))
                             => SubKeysMerged(Category(merged, key), Category(target, key),
                                              Category(donor, key))

----------------------------------------------------------------------------
(* What the claim about the graphics state at the overlay speaks of *)

\* the graphics state after the first k operators of content: the stack of
\* saved states and whether a transform of the original content is in
\* effect.  The operators at positions lo..hi are the page's original
\* content; a cm outside them is the wrapper's "1 0 0 1 0 0 cm", which leaves
\* the transform as it is.  A Q on an empty stack restores nothing.
RECURSIVE GState(_, _, _, _)
GState(content, k, lo, hi) ==
    IF k = 0 THEN [stack |-> << >>, transformed |-> FALSE]
    ELSE LET s == GState(content, k - 1, lo, hi)
             original == k \in lo..hi
         IN CASE content[k] = "q" ->
                     [s EXCEPT !.stack = Append(s.stack, [transformed |-> s.transformed,
                                                          original |-> original])]
              [] content[k] = "Q" ->
                     IF s.stack = << >> THEN s
                     ELSE [stack |-> SubSeq(s.stack, 1, Len(s.stack) - 1),
                           transformed |-> s.stack[Len(s.stack)].transformed]
              [] content[k] = "cm" ->
                     IF original THEN [s EXCEPT !.transformed = TRUE] ELSE s
              [] OTHER -> s

\* no transform of the original content in effect, no save of it open
CleanState(s) ==
    /\ ~s.transformed
    /\ \A h \in 1..Len(s.stack) : ~s.stack[h].original

\* the content of the j-th page in the saved file, the content it had before
\* the first pass, and the number of wrappers around it
StampedContent(j) == LogicalContent(sfile, FirstPages[j])
OriginalContent(j) == LogicalContent(orig0, FirstPages[j])
Wrappers(j) == (Len(StampedContent(j)) - Len(OriginalContent(j))) \div (1 + Len(QxContent))

\* C23: for every page, whatever its original content, at every Do of the
\* overlay in the stamped page no transform (cm) of the original content is
\* in effect and no save (q) of the original content is still open.
C23_OverlayInCleanState ==
    \A j \in 1..Len(FirstPages) :
        \A k \in 1..Len(StampedContent(j)) :
            StampedContent(j)[k] = "Do" =>
                CleanState(GState(StampedContent(j), k, Wrappers(j) + 1,
                                  Wrappers(j) + Len(OriginalContent(j))))

----------------------------------------------------------------------------
(* What the claim about the --date argument speaks of *)

DateUnparsable ==
    /\ hargs # NoArgs
    /\ hargs.input_exists
    /\ hargs.date # None
    /\ parse_date_expression(hargs.date[1]).k = "Err"

\* C24: a headers invocation whose --date cannot be parsed fails with the
\* error of parse_date_expression and produces no stamped output: once the
\* date has been looked at, the command has returned that error, and the
\* document is never stamped.
C24_DateErrorPropagates ==
    (DateUnparsable /\ spc # "cmd") =>
        /\ cmd_result = ErrInvalidDateExpression
        /\ spc = "exited"
        /\ passes = 0
        /\ sfile = orig0

----------------------------------------------------------------------------
(* What the claim about inherited attributes speaks of *)

InheritableKeys == {"Resources", "MediaBox"}

\* the value of key found at the object id or, when it has none, at the
\* nearest ancestor reached through Parent references; None when no ancestor
\* within depth steps has it
RECURSIVE LookUp(_, _, _, _)
LookUp(doc, id, key, depth) ==
    IF id \notin DOMAIN doc.objects \/ ~IsDict(doc.objects[id]) THEN None
    ELSE LET d == doc.objects[id].v IN
         IF Has(d, key) THEN Some(d[key])
         ELSE IF depth > 0 /\ Has(d, "Parent") /\ IsRef(d["Parent"])
         THEN LookUp(doc, d["Parent"].id, key, depth - 1)
         ELSE None

\* the k-th page of the output took key from an ancestor in its source
InheritedInSource(k, key) ==
    LET src == SourceDoc(SourcePages[k][1])
        pid == SourcePages[k][2]
    IN /\ ~Has(src.objects[pid].v, key)
       /\ LookUp(src, pid, key, TreeDepth) # None

\* C25: after a successful merge, every attribute (Resources, MediaBox) that
\* a leaf page obtained in its source by walking Parent references up to an
\* ancestor Pages node is obtained, with the same value, by walking Parent
\* references in the merged document.
C25_InheritancePreserved ==
    MergeSucceeded =>
        \A k \in 1..Len(SourcePages) : \A key \in InheritableKeys :
            InheritedInSource(k, key) =>
                LET j == SourcePages[k][1]
                    pid == SourcePages[k][2]
                    map == RenumberMap(SourceDoc(j), StartOf(j))
                IN LookUp(merged_doc, map[pid], key, TreeDepth)
                     = Some(Renumbered(LookUp(SourceDoc(j), pid, key, TreeDepth)[1], map))

----------------------------------------------------------------------------
(* What the claim about a page's effective resources speaks of *)

\* the Resources a page's content is resolved against: its own entry or the
\* nearest ancestor's, a reference to the dictionary followed; the empty
\* dictionary when there is none
EffectiveResources(doc, page_id) ==
    LET found == LookUp(doc, page_id, "Resources", TreeDepth) IN
    IF found = None THEN EmptyDict
    ELSE LET res == Resolved(doc, found[1]) IN IF IsDict(res) THEN res.v ELSE EmptyDict

\* the names of one category of res and the objects they resolve to
NamesOf(doc, res, category) ==
    IF ~Has(res, category) THEN EmptyDict
    ELSE LET c == Resolved(doc, res[category]) IN IF IsDict(c) THEN c.v ELSE EmptyDict

\* the pages add_xobject_to_page_resources has run on in this pass
ResourcesAdded ==
    {j \in 1..Len(pages) : j < spage \/ (j = spage /\ spc = "wrap") \/ spc = "save"}

\* C26: after add_xobject_to_page_resources has run on a page, every resource
\* name the page resolved before the pass, through a direct Resources
\* dictionary, a referenced one or an inherited one, resolves to the same
\* object; HeaderFooter, the entry the function sets, is the one name that
\* may change.
C26_EffectiveResourcesKept ==
    InPass =>
        \A j \in ResourcesAdded :
            LET before == EffectiveResources(orig, pages[j])
                after == EffectiveResources(sdoc, pages[j])
            IN \A category \in DOMAIN before :
                  \A name \in DOMAIN NamesOf(orig, before, category) :
                      (category = "XObject" /\ name = "HeaderFooter")
                      \/ /\ name \in DOMAIN NamesOf(sdoc, after, category)
                         /\ NamesOf(sdoc, after, category)[name]
                              = NamesOf(orig, before, category)[name]

----------------------------------------------------------------------------
(* What the claim about the segments of a line speaks of *)

\* the line with its tag markup removed: every opening tag [font ...] that
\* has its "]", and the [/font] that closes it; an opening "[font " with no
\* "]" after it is text
RECURSIVE Stripped(_)
Stripped(line) ==
    LET font_start == find(line, FontOpen) IN
    IF font_start = -1 THEN line
    ELSE LET tag_end == find(SliceFrom(line, font_start), <<"]">>) IN
         IF tag_end = -1 THEN line
         ELSE LET after_tag == SliceFrom(line, font_start + tag_end + 1)
                  close_pos == find(after_tag, FontClose)
              IN Slice(line, 0, font_start)
                 \o (IF close_pos = -1 THEN after_tag
                     ELSE Slice(after_tag, 0, close_pos)
                          \o Stripped(SliceFrom(after_tag, close_pos + Len(FontClose))))

SegmentTexts(segments) == Concat([j \in 1..Len(segments) |-> segments[j].text])

\* C27: the segments parse_font_tags returns for a line cover the line's text
\* outside tag markup exactly once and in order: their texts, concatenated,
\* are the line with each opening tag and each matching [/font] removed, also
\* when an opening "[font " has no "]" and the rest of the line is plain text.
C27_SegmentsCoverLineOnce ==
    Returned("parse_font_tags") => SegmentTexts(ret) = Stripped(call.text)

----------------------------------------------------------------------------
(* What the claim about two build commands run together speaks of *)

\* the output a run of the build command has to write
OwnOutput(i) ==
    StampedFile(MergedFile(builds[i].args.inputs), builds[i].args.title)

\* C28: two build commands run at the same time on different inputs and
\* different output paths do not interfere: in every interleaving of their
\* merge, stamp and clean-up steps neither command fails, and the output of
\* each is the stamped merge of its own inputs.
C28_BuildsDoNotInterfere ==
    \A i \in DOMAIN builds :
        /\ builds[i].result.k # "Err"
        /\ builds[i].out # None => builds[i].out[1] = OwnOutput(i)

----------------------------------------------------------------------------
(* What the claim about repeated passes speaks of *)

\* the XObject names a page resolves, and what each refers to
XObjectsOf(doc, page_id) == NamesOf(doc, EffectiveResources(doc, page_id), "XObject")

\* the page was stamped by an earlier pass: the document the pass loaded
\* draws HeaderFooter on it
StampedBefore(j) ==
    /\ passes >= 1
    /\ "HeaderFooter" \in DOMAIN XObjectsOf(orig, pages[j])

\* C29: stamping is additive across passes: on a page that an earlier pass
\* stamped, after add_xobject_to_page_resources has run in a later pass the
\* name HeaderFooter drawn by the earlier pass's streams still refers to the
\* overlay object that pass created, and once the page is wrapped the earlier
\* content entries, in order, precede the new restore-and-overlay stream.
C29_EarlierOverlayKept ==
    InPass =>
        /\ \A j \in ResourcesAdded :
              StampedBefore(j) =>
                  /\ "HeaderFooter" \in DOMAIN XObjectsOf(sdoc, pages[j])
                  /\ XObjectsOf(sdoc, pages[j])["HeaderFooter"]
                       = XObjectsOf(orig, pages[j])["HeaderFooter"]
        /\ \A j \in WrappedPages :
              StampedBefore(j) =>
                  LET old == ContentEntries(OrigPage(j))
                      new == NowPage(j)["Contents"]
                  IN /\ IsArr(new)
                     /\ SubSeq(new.v, 2, Len(new.v) - 1) = old
                     /\ IsNewStream(sdoc, new.v[Len(new.v)], QxContent)

----------------------------------------------------------------------------
(* What the claim about the import of the watermark's objects speaks of *)

ImportDone == opc \in {"pages", "save", "done"}

\* the identifier an object of the watermark is imported under
ImportedId(old_id) == <<old_id[1] + source0.max_id + 1, old_id[2]>>

\* new is old with every reference to an object of the watermark, at any
\* depth, pointing at the identifier that object is imported under, and
\* nothing else changed
RECURSIVE Rewritten(_, _)
Rewritten(old, new) ==
    CASE old.t = "ref" ->
            /\ new.t = "ref"
            /\ new.id = IF old.id \in DOMAIN watermark_doc.objects
                        THEN ImportedId(old.id) ELSE old.id
      [] old.t = "arr" ->
            /\ new.t = "arr"
            /\ Len(new.v) = Len(old.v)
            /\ \A j \in 1..Len(old.v) : Rewritten(old.v[j], new.v[j])
      [] old.t = "dict" ->
            /\ new.t = "dict"
            /\ DOMAIN new.v = DOMAIN old.v
            /\ \A k \in DOMAIN old.v : Rewritten(old.v[k], new.v[k])
      [] old.t = "stream" ->
            /\ new.t = "stream"
            /\ new.content = old.content
            /\ DOMAIN new.dict = DOMAIN old.dict
            /\ \A k \in DOMAIN old.dict : Rewritten(old.dict[k], new.dict[k])
      [] OTHER -> new = old

\* C30: in overlay_watermark every object of the watermark is imported under
\* its number plus the source's max_id + 1, generation kept, an identifier no
\* object of the source uses; every reference inside an imported object to an
\* object of the watermark, nested in arrays, dictionaries and stream
\* dictionaries included, points at that object's new identifier; and after
\* the import the source's max_id is at least every object number present.
C30_ImportRenumbersEverything ==
    ImportDone =>
        /\ \A old_id \in DOMAIN watermark_doc.objects :
              /\ ImportedId(old_id) \notin DOMAIN source0.objects
              /\ ImportedId(old_id) \in DOMAIN source_doc.objects
              /\ Rewritten(watermark_doc.objects[old_id],
                           source_doc.objects[ImportedId(old_id)])
        /\ \A id \in DOMAIN source_doc.objects : id[1] <= source_doc.max_id

\* the import has run on a watermark whose font holds a reference inside a
\* dictionary inside an array, whose descriptor refers to a stream of
\* generation 1, and whose stream dictionary refers back to the descriptor
C30_Witness ==
    /\ ImportDone
    /\ watermark_doc.objects[<<8, 0>>].v["DescendantFonts"].v[1].v["FontDescriptor"]
         = Ref(<<9, 0>>)
    /\ watermark_doc.objects[<<10, 1>>].dict["Length1"] = Ref(<<9, 0>>)
    /\ LET off == source0.max_id + 1 IN
          /\ source_doc.objects[<<8 + off, 0>>].v["DescendantFonts"].v[1].v["FontDescriptor"]
               = Ref(<<9 + off, 0>>)
          /\ source_doc.objects[<<9 + off, 0>>].v["FontFile2"] = Ref(<<10 + off, 1>>)
          /\ source_doc.objects[<<10 + off, 1>>].dict["Length1"] = Ref(<<9 + off, 0>>)
          /\ <<10 + off, 1>> \notin DOMAIN source0.objects

====
